---- MODULE Spec2Model ----
(***************************************************************************)
(* scrapy-autoextract: the per-slot semaphore (slot_semaphore.py), the     *)
(* task manager (task_manager.py) and the provider that composes them      *)
(* with the response cache (providers.py, cache.py).                       *)
(*                                                                         *)
(* Scheduling model: one asyncio event loop.  A coroutine runs without     *)
(* interruption from one suspension point (await of a pending future) to   *)
(* the next, so every action below is one such step.  The only code that   *)
(* can run in the middle of a step is a handler installed with             *)
(* signal.signal, which the interpreter runs between two bytecodes of the  *)
(* main thread.                                                            *)
(***************************************************************************)
EXTENDS Integers, Sequences, FiniteSets, TLC

\* ---------------------------------------------------------------- bounds
NumTasks == 3
NumKeys == 2
MaxCapacity == 2
NumManagers == 2
NumCalls == 2
MaxAttempts == 2

Tasks == 1..NumTasks
Keys == 1..NumKeys
Managers == 1..NumManagers
\* the tasks that call TaskManager.run in SpecTM and __call__ in SpecProv
Calls == 1..NumCalls

VARIABLES
    \* SlotsSemaphore
    concurrency_per_slot,   \* SlotsSemaphore.concurrency_per_slot
    slots,                  \* SlotsSemaphore.slots: key -> _SlotMeta
    \* one coroutine SlotsSemaphore.run(awaitable, slot) per task
    pc,                     \* where the coroutine of the task stands
    slot,                   \* _SlotSemaphore.slot of the task (0: none yet)
    \* signal handlers of the process (one signal)
    first_handler,          \* the handler installed before any TaskManager
    sig_handler,            \* signal.getsignal(sig): 0 first_handler, m new_handler of m
    old_handler,            \* old_handler in the closure of new_handler of m
    sig_log,                \* what the last delivery of the signal did, in order
    \* TaskManager
    managers,               \* number of TaskManager objects created
    cancelled,              \* TaskManager.cancelled
    running_tasks,          \* TaskManager.running_tasks
    cancel_all_called,      \* history: cancel_all() has run on the manager
    \* one call TaskManager.run(awaitable) per task
    mgr,                    \* the manager of the call (0: not called yet)
    call,                   \* where the caller of run() stands
    task,                   \* state of the asyncio.Task created by run()
    must_cancel,            \* a CancelledError is on its way to the task
    running,                \* the task in the middle of a step (0: none)
    started,                \* history: the awaitable has executed a step
    after_cancel,           \* history: run() was called after cancel_all()
    at_cancel,              \* history: state of the call when cancel_all() ran
    \* AutoExtractProvider
    settings,               \* crawler.settings: name -> value of those set
    provider,               \* how AutoExtractProvider.__init__ ended, if called
    cache_kind,             \* class of AutoExtractProvider.cache
    cache,                  \* the stored responses: fingerprint -> response
    stats,                  \* crawler.stats: key -> value
    close_spider_calls,     \* calls of crawler.engine.close_spider
    \* one call AutoExtractProvider.__call__(to_provide, request) per task
    ppc,                    \* where the call stands
    todo,                   \* the specs not finished yet (the head is in progress)
    domain,                 \* get_per_domain_concurrency_slot(request)
    instances,              \* the list the call builds
    raised,                 \* the exception that ended the call
    response,               \* what the task of the query in progress ended with
    agg,                    \* request_stats of the query in progress
    lookup,                 \* history: outcome of the cache lookup of the query
    requested,              \* history: to_provide as the caller passed it
    fp_call,                \* the call of fingerprint() for the request, and its set
    \* AutoExtractMiddleware
    mw,                     \* the middleware: timeout, page_type, slot_policy
    request,                \* the request the middleware was last called with
    mw_result,              \* what that call returned or raised
    mw_log                  \* the methods of the middleware called for the request

confVars == <<settings, provider, concurrency_per_slot>>
semVars == <<confVars, slots, pc, slot>>
sigVars == <<first_handler, sig_handler, old_handler, sig_log>>
tmVars == <<managers, cancelled, running_tasks, cancel_all_called, mgr, call,
            task, must_cancel, running, started, after_cancel, at_cancel>>
provVars == <<cache_kind, cache, stats, close_spider_calls, ppc, todo,
              domain, instances, raised, response, agg, lookup, requested,
              fp_call>>
mwVars == <<mw, request, mw_result, mw_log>>
vars == <<semVars, sigVars, tmVars, provVars, mwVars>>

\* ------------------------------------------------------- SlotsSemaphore
\* A _SlotMeta holds an asyncio.BoundedSemaphore and the counter.  The
\* semaphore is its free permits (value), its bound and the queue of the
\* tasks whose acquire() waits on a pending future.  A future that was
\* cancelled is skipped by the semaphore when it wakes the next waiter, so
\* the model takes it out of the queue when it is cancelled.
NewSlotMeta ==
    [value |-> concurrency_per_slot, bound |-> concurrency_per_slot,
     waiters |-> <<>>, registered_tasks |-> 0]

RemoveKey(s, k) == [x \in DOMAIN s \ {k} |-> s[x]]

Without(seq, t) == SelectSeq(seq, LAMBDA x : x # t)

\* Mutant of Registered: the test "slot not in slots" is lost, every
\* __aenter__ installs a fresh _SlotMeta.
RegisteredFresh(s, k) ==
    LET s1 == (k :> NewSlotMeta) @@ s
    IN  [s1 EXCEPT ![k].registered_tasks = @ + 1]

\* __aenter__, lines 92-97: the slot is created when missing and the
\* counter incremented, before the gate is tried.
Registered(s, k) ==
    LET s1 == IF k \notin DOMAIN s THEN s @@ (k :> NewSlotMeta) ELSE s
    IN  [s1 EXCEPT ![k].registered_tasks = @ + 1]

\* acquire() would let one task at a time through.
CanAcquireAlone(s, k) == s[k].value = s[k].bound

\* acquire() would never wait.
CanAcquireAlways(s, k) == TRUE

\* The permits of all the keys would be one pool.
CanAcquireAnyKey(s, k) == \A x \in DOMAIN s : s[x].value > 0

\* Semaphore.acquire() finds a free permit: it returns without suspending.
CanAcquire(s, k) == s[k].value > 0

Acquired(s, k) == [s EXCEPT ![k].value = @ - 1]

\* Semaphore.acquire() finds no permit: a future is queued and awaited.
Queued(s, k, t) == [s EXCEPT ![k].waiters = Append(@, t)]

\* release() would wake nobody.
HasWaiterNever(s, k) == FALSE

\* Semaphore._wake_up_next(): the first pending waiter is taken off the
\* queue and its future gets a result.
HasWaiter(s, k) == Len(s[k].waiters) > 0
NextWaiter(s, k) == Head(s[k].waiters)
WokenUp(s, k) == [s EXCEPT ![k].waiters = Tail(@)]

\* BoundedSemaphore.release() raises ValueError above the bound.
CanRelease(s, k) == s[k].value < s[k].bound

\* Mutant of Unregistered: the slot is never deleted.
UnregisteredKept(s, k) == [s EXCEPT ![k].registered_tasks = @ - 1]

\* Mutant of Unregistered: the slot is deleted while another task of the
\* key is still registered.
UnregisteredEarly(s, k) ==
    LET s1 == [s EXCEPT ![k].registered_tasks = @ - 1]
    IN  IF s1[k].registered_tasks <= 1 THEN RemoveKey(s1, k) ELSE s1

\* __aexit__, lines 101-105, after release(): the counter is decremented
\* and the slot deleted when it reaches 0.
Unregistered(s, k) ==
    LET s1 == [s EXCEPT ![k].registered_tasks = @ - 1]
    IN  IF s1[k].registered_tasks = 0 THEN RemoveKey(s1, k) ELSE s1

\* __aexit__ as a whole: the slots and the woken task (0: none) it leaves.
\* k is in the map and the permit can be released whenever the task holds
\* the gate; the other outcomes are the exceptions of lines 101 and 102.
AexitOutcome(s, k) ==
    IF k \notin DOMAIN s THEN [slots |-> s, woken |-> 0, error |-> "KeyError"]
    ELSE IF ~CanRelease(s, k) THEN [slots |-> s, woken |-> 0, error |-> "ValueError"]
    ELSE
      LET s1 == [s EXCEPT ![k].value = @ + 1]
          w  == IF HasWaiter(s1, k) THEN NextWaiter(s1, k) ELSE 0
          s2 == IF w # 0 THEN WokenUp(s1, k) ELSE s1
      IN  [slots |-> Unregistered(s2, k), woken |-> w, error |-> "none"]

\* __aexit__ would run only when the awaitable returns.
BodyExitOnReturnOnly(s, k, how) ==
    IF how = "returned" THEN AexitOutcome(s, k)
    ELSE [slots |-> s, woken |-> 0, error |-> "none"]

\* "async with" of run(), lines 59-60: __aexit__ runs however the awaitable
\* ends (how: returned, raised, cancelled).
BodyExit(s, k, how) == AexitOutcome(s, k)

\* pc of the tasks that hold the gate: suspended inside "return await
\* awaitable" (line 60), with or without a CancelledError on its way.
InSection == {"body", "body_cancelled"}
\* pc of the tasks suspended in acquire() (line 98).
AtGate == {"waiting", "woken", "waiting_cancelled", "woken_cancelled"}
\* pc of the tasks whose run() ended after the body ran
BodyEnded == {"returned", "raised", "cancelled_in_body"}
Ended == BodyEnded \cup {"cancelled_at_gate", "exit_error", "enter_error"}

Wake(p, w, to) == IF w # 0 THEN [p EXCEPT ![w] = to] ELSE p

\* __aenter__, lines 93-95: BoundedSemaphore(value) raises ValueError for a
\* negative value, before the slot is stored.
SemaphoreRaises(s, k) == k \notin DOMAIN s /\ concurrency_per_slot < 0

\* run(awaitable, slot) is called: __aenter__ up to the first suspension.
SemRun(t, k) ==
    /\ pc[t] = "init"
    /\ slot' = [slot EXCEPT ![t] = k]
    /\ IF SemaphoreRaises(slots, k)
       THEN /\ pc' = [pc EXCEPT ![t] = "enter_error"]
            /\ slots' = slots
       ELSE LET s == Registered(slots, k)
            IN  IF CanAcquire(s, k)
                THEN /\ slots' = Acquired(s, k)
                     /\ pc' = [pc EXCEPT ![t] = "body"]
                ELSE /\ slots' = Queued(s, k, t)
                     /\ pc' = [pc EXCEPT ![t] = "waiting"]
    /\ UNCHANGED <<mwVars, confVars, sigVars, tmVars, provVars>>

\* The woken task runs again inside acquire(): "while self._value <= 0".
SemResume(t) ==
    /\ pc[t] = "woken"
    /\ LET k == slot[t]
       IN  IF CanAcquire(slots, k)
           THEN /\ slots' = Acquired(slots, k)
                /\ pc' = [pc EXCEPT ![t] = "body"]
           ELSE /\ slots' = Queued(slots, k, t)
                /\ pc' = [pc EXCEPT ![t] = "waiting"]
    /\ UNCHANGED <<mwVars, confVars, slot, sigVars, tmVars, provVars>>

\* The awaitable ends (result or exception): __aexit__ runs.
SemBodyEnds(t, how) ==
    /\ pc[t] = "body"
    /\ LET o == BodyExit(slots, slot[t], how)
       IN  /\ slots' = o.slots
           /\ pc' = Wake([pc EXCEPT ![t] = IF o.error = "none" THEN how
                                           ELSE "exit_error"],
                         o.woken, "woken")
    /\ UNCHANGED <<mwVars, confVars, slot, sigVars, tmVars, provVars>>

\* Task.cancel() on the task that runs the coroutine.  A pending future of
\* acquire() is cancelled (and leaves the queue); otherwise the
\* CancelledError is thrown at the next step of the task.
CancelledPc(p, s, t) ==
    CASE p[t] = "waiting" -> "waiting_cancelled"
      [] p[t] = "woken"   -> "woken_cancelled"
      [] p[t] = "body"    -> "body_cancelled"
      [] OTHER            -> p[t]

CancelledSlots(p, s, t) ==
    IF p[t] = "waiting" /\ slot[t] \in DOMAIN s
    THEN [s EXCEPT ![slot[t]].waiters = Without(@, t)]
    ELSE s

SemCancel(t) ==
    /\ pc[t] \in {"waiting", "woken", "body"}
    /\ pc' = [pc EXCEPT ![t] = CancelledPc(pc, slots, t)]
    /\ slots' = CancelledSlots(pc, slots, t)
    /\ UNCHANGED <<mwVars, confVars, slot, sigVars, tmVars, provVars>>

\* The CancelledError reaches the coroutine.  In acquire() (line 98) it
\* leaves __aenter__, so __aexit__ does not run; a waiter that had been
\* woken passes the wake-up on when a permit is free.  In the body it
\* leaves through __aexit__.  The slots and the pc of the tasks it leaves.
CancelledOutcome(p, s, t) ==
    LET k == slot[t]
    IN  CASE p[t] = "waiting_cancelled" ->
               [slots |-> s, pc |-> [p EXCEPT ![t] = "cancelled_at_gate"]]
          [] p[t] = "woken_cancelled" ->
               LET w == IF CanAcquire(s, k) /\ HasWaiter(s, k)
                        THEN NextWaiter(s, k) ELSE 0
               IN  [slots |-> IF w # 0 THEN WokenUp(s, k) ELSE s,
                    pc |-> Wake([p EXCEPT ![t] = "cancelled_at_gate"], w, "woken")]
          [] p[t] = "body_cancelled" ->
               LET o == BodyExit(s, k, "cancelled")
               IN  [slots |-> o.slots,
                    pc |-> Wake([p EXCEPT ![t] = IF o.error = "none"
                                                 THEN "cancelled_in_body"
                                                 ELSE "exit_error"],
                                o.woken, "woken")]
          [] OTHER -> [slots |-> s, pc |-> p]

SemCancelled(t) ==
    /\ pc[t] \in {"waiting_cancelled", "woken_cancelled", "body_cancelled"}
    /\ slots' = CancelledOutcome(pc, slots, t).slots
    /\ pc' = CancelledOutcome(pc, slots, t).pc
    /\ UNCHANGED <<mwVars, confVars, slot, sigVars, tmVars, provVars>>

SemInit ==
    /\ concurrency_per_slot \in 1..MaxCapacity
    /\ slots = <<>>
    /\ pc = [t \in Tasks |-> "init"]
    /\ slot = [t \in Tasks |-> 0]

SemNext ==
    \/ \E t \in Tasks, k \in Keys : SemRun(t, k)
    \/ \E t \in Tasks : SemResume(t)
    \/ \E t \in Tasks, how \in {"returned", "raised"} : SemBodyEnds(t, how)
    \/ \E t \in Tasks : SemCancel(t)
    \/ \E t \in Tasks : SemCancelled(t)

\* ----------------------------------------------------------- TaskManager
\* States of an asyncio.Task: created and not started, suspended on a
\* future, in the middle of a step, and the three ways it ends.
TaskLive == {"scheduled", "suspended", "running"}
TaskEnded == {"result", "exception", "cancelled"}

\* "if callable(old_handler)", line 56: SIG_DFL, SIG_IGN and None are not.
Callable(h) == h # 0 \/ first_handler # "SIG_DFL"

\* Mutant of NewHandler: the old handler is called without try/except, so
\* its exception leaves new_handler before _cancel_on_signal.
NewHandlerUnprotected(m, inner) ==
    [log |-> inner.log \o (IF inner.exc THEN << <<"raise", m>> >>
                                        ELSE << <<"cancel_all", m>> >>),
     exc |-> inner.exc]

\* Mutant of NewHandler: _cancel_on_signal runs before the old handler.
NewHandlerOwnFirst(m, inner) ==
    [log |-> << <<"cancel_all", m>> >> \o inner.log
                       \o (IF inner.exc THEN << <<"raise", m>> >> ELSE <<>>),
     exc |-> inner.exc]

\* new_handler of manager m, lines 53-63, given what the old handler did
\* (inner: its log and whether it raised): the old handler's exception is
\* kept, _cancel_on_signal runs, the exception is raised again.
NewHandler(m, inner) ==
    [log |-> inner.log \o << <<"cancel_all", m>> >>
                       \o (IF inner.exc THEN << <<"raise", m>> >> ELSE <<>>),
     exc |-> inner.exc]

\* The handler h as the interpreter runs it: the first handler, or the
\* new_handler of a manager, which calls the handler it replaced.
RECURSIVE HandlerRun(_)
HandlerRun(h) ==
    IF h = 0
    THEN [log |-> << <<"old_handler", 0>> >>, exc |-> first_handler = "raises"]
    ELSE NewHandler(h, IF Callable(old_handler[h])
                       THEN HandlerRun(old_handler[h])
                       ELSE [log |-> <<>>, exc |-> FALSE])

\* The managers whose cancel_all() a delivery of the signal ran.
CancelledBy(log) ==
    {m \in Managers : \E i \in 1..Len(log) : log[i] = <<"cancel_all", m>>}

\* Mutant of CancelTargets: cancel_all() sets the flag and cancels nothing.
CancelTargetsNone(M) == {}

\* "for task in self.running_tasks: task.cancel()", lines 90-91, for the
\* managers of M.  Task.cancel() does nothing on a task that has ended.
CancelTargets(M) ==
    {t \in Tasks : task[t] \in TaskLive /\ \E m \in M : t \in running_tasks[m]}

\* The calls of run() in progress on a manager of M whose task has not
\* ended (what the history at_cancel records, from the calls themselves).
InProgress(M) ==
    {t \in Tasks : mgr[t] \in M /\ call[t] = "awaiting" /\ task[t] \in TaskLive}

\* cancel_all() would flip the flag.
FlagFlipped(c, M) == [m \in Managers |-> IF m \in M THEN ~c[m] ELSE c[m]]

\* "self.cancelled = True", line 89, on every manager of M.
FlagSet(c, M) == [m \in Managers |-> c[m] \/ m \in M]

\* cancel_all(), lines 85-91, on every manager of M.
CancelAllOn(M) ==
    /\ cancelled' = FlagSet(cancelled, M)
    /\ must_cancel' = [t \in Tasks |-> must_cancel[t] \/ t \in CancelTargets(M)]
    /\ cancel_all_called' = [m \in Managers |-> cancel_all_called[m] \/ m \in M]
    /\ at_cancel' = [t \in Tasks |->
                       IF t \in InProgress(M) /\ at_cancel[t] = "no"
                       THEN (IF running = t THEN "midstep" ELSE "between")
                       ELSE at_cancel[t]]

\* TaskManager.__init__, lines 43-47 and 49-65: the handler of the signal
\* is replaced by new_handler, which keeps the one it replaces.
TMCreate ==
    /\ managers < NumManagers
    /\ managers' = managers + 1
    /\ old_handler' = [old_handler EXCEPT ![managers + 1] = sig_handler]
    /\ sig_handler' = managers + 1
    /\ UNCHANGED <<mwVars, semVars, provVars, first_handler, sig_log, cancelled, running_tasks,
                   cancel_all_called, mgr, call, task, must_cancel, running,
                   started, after_cancel, at_cancel>>

\* Mutant of RunRaises: run() does not read the flag.
RunNeverRaises(m) == FALSE

\* "if self.cancelled: raise CancelledError()", lines 72-74.
RunRaises(m) == cancelled[m]

\* "self.running_tasks.add(task)", line 70.
TaskAdded(rt, m, t) == [rt EXCEPT ![m] = @ \cup {t}]

\* Mutant of TaskRemoved: the task is removed after "return await task"
\* instead of in a finally clause.
TaskRemovedOnReturn(rt, m, t, how) ==
    IF how = "returned" THEN [rt EXCEPT ![m] = @ \ {t}] ELSE rt

\* "finally: self.running_tasks.remove(task)", lines 76-77; how is the way
\* the try block was left.
TaskRemoved(rt, m, t, how) == [rt EXCEPT ![m] = @ \ {t}]

\* run(awaitable), lines 67-77, up to "await task": the task is created
\* (and so scheduled on the loop) and added before the flag is read.
TMRun(t, m) ==
    /\ running = 0
    /\ m \in 1..managers
    /\ call[t] = "idle"
    /\ mgr' = [mgr EXCEPT ![t] = m]
    /\ task' = [task EXCEPT ![t] = "scheduled"]
    /\ after_cancel' = [after_cancel EXCEPT ![t] = cancel_all_called[m]]
    /\ IF RunRaises(m)
       THEN /\ running_tasks' = TaskRemoved(TaskAdded(running_tasks, m, t),
                                            m, t, "raised_cancelled")
            /\ call' = [call EXCEPT ![t] = "raised_cancelled"]
       ELSE /\ running_tasks' = TaskAdded(running_tasks, m, t)
            /\ call' = [call EXCEPT ![t] = "awaiting"]
    /\ UNCHANGED <<mwVars, semVars, provVars, sigVars, managers, cancelled, cancel_all_called,
                   must_cancel, running, started, at_cancel>>

\* The loop runs a step of the task: the awaitable starts or goes on.
TMStepBegin(t) ==
    /\ running = 0
    /\ task[t] \in {"scheduled", "suspended"}
    /\ ~must_cancel[t]
    /\ running' = t
    /\ task' = [task EXCEPT ![t] = "running"]
    /\ started' = [started EXCEPT ![t] = TRUE]
    /\ UNCHANGED <<mwVars, semVars, provVars, sigVars, managers, cancelled, running_tasks,
                   cancel_all_called, mgr, call, must_cancel, after_cancel,
                   at_cancel>>

\* The step ends: the awaitable awaits a pending future, returns or
\* raises.  Task.__step with a cancellation requested during the step:
\* the awaited future is cancelled at once, a returned value is dropped
\* and the task is cancelled, an exception stays the task's exception.
StepOutcome(how, mc) ==
    CASE how = "suspend" -> "suspended"
      [] how = "return"  -> IF mc THEN "cancelled" ELSE "result"
      [] how = "raise"   -> "exception"

TMStepEnd(t, how) ==
    /\ running = t
    /\ running' = 0
    /\ task' = [task EXCEPT ![t] = StepOutcome(how, must_cancel[t])]
    /\ must_cancel' = [must_cancel EXCEPT ![t] = @ /\ how = "suspend"]
    /\ UNCHANGED <<mwVars, semVars, provVars, sigVars, managers, cancelled, running_tasks,
                   cancel_all_called, mgr, call, started, after_cancel,
                   at_cancel>>

\* The CancelledError is thrown into the awaitable at its suspension point
\* (or before its first instruction) and ends the task.
TMCancelled(t) ==
    /\ running = 0
    /\ task[t] \in {"scheduled", "suspended"}
    /\ must_cancel[t]
    /\ task' = [task EXCEPT ![t] = "cancelled"]
    /\ must_cancel' = [must_cancel EXCEPT ![t] = FALSE]
    /\ UNCHANGED <<mwVars, semVars, provVars, sigVars, managers, cancelled, running_tasks,
                   cancel_all_called, mgr, call, running, started,
                   after_cancel, at_cancel>>

\* "return await task" goes on once the task has ended (line 75), through
\* the finally clause.
AwaitOutcome(st) ==
    CASE st = "result"    -> "returned"
      [] st = "exception" -> "raised_error"
      [] st = "cancelled" -> "raised_cancelled"

TMAwaited(t) ==
    /\ running = 0
    /\ call[t] = "awaiting"
    /\ task[t] \in TaskEnded
    /\ call' = [call EXCEPT ![t] = AwaitOutcome(task[t])]
    /\ running_tasks' = TaskRemoved(running_tasks, mgr[t], t,
                                    AwaitOutcome(task[t]))
    /\ UNCHANGED <<mwVars, semVars, provVars, sigVars, managers, cancelled, cancel_all_called, mgr,
                   task, must_cancel, running, started, after_cancel,
                   at_cancel>>

\* cancel_all() called by the program: between two started, or by the
\* awaitable of a managed task during its step.
TMCancelAll(m) ==
    /\ m \in 1..managers
    /\ CancelAllOn({m})
    /\ UNCHANGED <<mwVars, semVars, provVars, sigVars, managers, running_tasks, mgr, call, task,
                   running, started, after_cancel>>

\* The signal is delivered: the interpreter runs the installed handler,
\* between two started or in the middle of one.
TMSignal ==
    /\ sig_handler # 0
    /\ LET r == HandlerRun(sig_handler)
       IN  /\ sig_log' = << <<"signal", sig_handler>> >> \o r.log
           /\ CancelAllOn(CancelledBy(r.log))
    /\ UNCHANGED <<mwVars, semVars, provVars, first_handler, sig_handler, old_handler, managers,
                   running_tasks, mgr, call, task, running, started,
                   after_cancel>>

SigInit ==
    /\ first_handler \in {"SIG_DFL", "returns", "raises"}
    /\ sig_handler = 0
    /\ old_handler = [m \in Managers |-> 0]
    /\ sig_log = <<>>

TMInit ==
    /\ managers = 0
    /\ cancelled = [m \in Managers |-> FALSE]
    /\ running_tasks = [m \in Managers |-> {}]
    /\ cancel_all_called = [m \in Managers |-> FALSE]
    /\ mgr = [t \in Tasks |-> 0]
    /\ call = [t \in Tasks |-> "idle"]
    /\ task = [t \in Tasks |-> "none"]
    /\ must_cancel = [t \in Tasks |-> FALSE]
    /\ running = 0
    /\ started = [t \in Tasks |-> FALSE]
    /\ after_cancel = [t \in Tasks |-> FALSE]
    /\ at_cancel = [t \in Tasks |-> "no"]

TMNext ==
    \/ TMCreate
    \/ \E t \in Calls, m \in Managers : TMRun(t, m)
    \/ \E t \in Tasks : TMStepBegin(t)
    \/ \E t \in Tasks, how \in {"suspend", "return", "raise"} : TMStepEnd(t, how)
    \/ \E t \in Tasks : TMCancelled(t)
    \/ \E t \in Tasks : TMAwaited(t)
    \/ \E m \in Managers : TMCancelAll(m)
    \/ TMSignal

\* --------------------------------------------------- AutoExtractProvider
\* What can be asked of the provider: AutoExtractHtml and the subclasses
\* of AutoExtractData (their page_type).
Html == "html"
PageTypes == {"product", "article", "jobPosting"}
\* page_type_class_for_html, line 86.
PageTypeForHtml == "product"
Urls == {"a.example/1", "b.example/1"}

\* get_domain(request.url), utils.py: the registrable domain, as a key of
\* the semaphore.
GetDomain(url) == IF url = "a.example/1" THEN 1 ELSE 2

\* get_filled_request, lines 188-199: the query, as Request.as_dict gives
\* it; fullHtml is there only when html is requested with this query.
FilledRequest(url, page_type, should_request_html) ==
    [url |-> url, pageType |-> page_type, fullHtml |-> should_request_html]

\* list_required_requests, lines 201-234.  order is the iteration order
\* of the set of classes that is left once AutoExtractHtml is discarded
\* (of {page_type_class_for_html} when nothing is left).
RequiredTypes(to_provide) ==
    IF Html \in to_provide /\ to_provide \ {Html} = {}
    THEN {PageTypeForHtml}
    ELSE to_provide \ {Html}

Orders(S) ==
    {o \in [1..Cardinality(S) -> S] : \A x \in S : \E i \in DOMAIN o : o[i] = x}

\* Every query of a call that needs html would ask for it.
ShouldRequestHtmlAlways(is_html_required, provided_cls, class_for_html) ==
    is_html_required

\* Line 220: html is requested a single time.
ShouldRequestHtml(is_html_required, provided_cls, class_for_html) ==
    is_html_required /\ provided_cls = class_for_html

ListRequiredRequests(to_provide, url, order) ==
    LET is_html_required == Html \in to_provide
        is_extraction_required == to_provide \ {Html} # {}
        types == RequiredTypes(to_provide)
        class_for_html == IF PageTypeForHtml \in types THEN PageTypeForHtml
                          ELSE order[1]
    IN  IF types = {} THEN <<>>
        ELSE [i \in 1..Len(order) |->
                LET srh == ShouldRequestHtml(is_html_required, order[i],
                                             class_for_html)
                IN  [query |-> FilledRequest(url, order[i], srh),
                     should_request_html |-> srh,
                     is_extraction_required |-> is_extraction_required,
                     provided_cls |-> order[i]]]

\* The keys of the dictionary of a query: fullHtml is a key only when html
\* is requested (get_filled_request, lines 197-198).
QueryFields(query) ==
    {"url", "pageType"} \cup (IF query.fullHtml THEN {"fullHtml"} ELSE {})

\* The orders in which a dictionary can hold the keys of a query.
FieldOrders(query) ==
    LET n == Cardinality(QueryFields(query))
    IN  {o \in [1..n -> QueryFields(query)] :
            \A i, j \in 1..n : o[i] = o[j] => i = j}

\* request.as_dict(), cache.py line 73: the key/value pairs of the query in
\* the order fields of the dictionary; the value true of fullHtml as JSON
\* writes it.
AsDict(query, fields) ==
    [i \in 1..Len(fields) |->
        IF fields[i] = "fullHtml" THEN <<"fullHtml", "true">>
        ELSE <<fields[i], query[fields[i]]>>]

\* The order of the keys as strings.
KeyRank(key) ==
    CASE key = "fullHtml" -> 1 [] key = "pageType" -> 2 [] key = "url" -> 3

\* The keys would be written in the order of the dictionary.
SortKeysNone(dict) == dict

\* sort_keys=True, cache.py line 75: the pairs in ascending order of key.
SortKeys(dict) ==
    [i \in 1..Len(dict) |->
        dict[CHOOSE j \in 1..Len(dict) :
                Cardinality({k \in 1..Len(dict) :
                    KeyRank(dict[k][1]) < KeyRank(dict[j][1])}) = i - 1]]

\* json.dumps(..., sort_keys=True), cache.py lines 72-76: the text is the
\* sequence of the pairs as written.
JsonDumps(dict) == SortKeys(dict)

\* _Cache.fingerprint of a request whose dictionary is dict: DummyCache,
\* cache.py lines 31-33, gives '' for every query; AutoExtractCache, lines
\* 71-77, the JSON text of the dictionary with its keys sorted.
DictFingerprint(kind, dict) ==
    IF kind = "DummyCache" THEN <<>> ELSE JsonDumps(dict)

\* The dictionary of a request made by get_filled_request, lines 193-198:
\* url, pageType, then what extra holds.
FilledDict(query) ==
    AsDict(query, IF query.fullHtml THEN <<"url", "pageType", "fullHtml">>
                  ELSE <<"url", "pageType">>)

\* The fingerprint of a query of the provider (line 152).
Fingerprint(kind, query) == DictFingerprint(kind, FilledDict(query))

\* _Cache.__getitem__: DummyCache raises KeyError (lines 35-36),
\* AutoExtractCache reads the table (lines 84-85).
CacheHas(kind, c, fp) == kind # "DummyCache" /\ fp \in DOMAIN c

\* DummyCache would keep what is written.
CacheSetAnyKind(kind, c, fp, value) ==
    [x \in DOMAIN c \cup {fp} |-> IF x = fp THEN value ELSE c[x]]

\* _Cache.__setitem__: DummyCache drops the value (lines 38-39).
CacheSet(kind, c, fp, value) ==
    IF kind = "DummyCache" THEN c
    ELSE [x \in DOMAIN c \cup {fp} |-> IF x = fp THEN value ELSE c[x]]

\* StatsCollector.inc_value(key, count): the key starts at 0.
IncValue(st, key, count) ==
    [x \in DOMAIN st \cup {key} |->
        (IF x \in DOMAIN st THEN st[x] ELSE 0) + (IF x = key THEN count ELSE 0)]

GetValue(st, key) == IF key \in DOMAIN st THEN st[key] ELSE 0

\* inc_stats would count under the total prefix only.
IncStatsTotalOnly(st, page_type, suffix, value, both) ==
    IncValue(st, <<"total">> \o suffix, value)

\* inc_stats, lines 251-254.
IncStats(st, page_type, suffix, value, both) ==
    LET st1 == IncValue(st, <<"total">> \o suffix, value)
    IN  IF both THEN IncValue(st1, <<page_type>> \o suffix, value) ELSE st1

\* Every exception would be classified by its class.
SummarizeAsRest(exc) == <<"/rest", exc.type>>

\* summarize_exception, errors.py lines 14-27; exc is the exception: its
\* class and, for a QueryError, its message.
SummarizeException(exc) ==
    IF exc.type = "QueryError"
    THEN <<"/query", IF exc.message = "Domain occupied, retry in N"
                     THEN "domain occupied" ELSE exc.message>>
    ELSE <<"/rest", exc.type>>

\* Every RequestError would close the spider.
StopIfRequestError(exc) == IF exc.type = "RequestError" THEN 1 ELSE 0

\* _stop_if_account_disabled, lines 50-58: 1 when close_spider is called.
StopIfAccountDisabled(exc) ==
    IF exc.type = "RequestError" /\ exc.message = "account_disabled"
    THEN 1 ELSE 0

NoResponse == [kind |-> "none"]
NoException == [type |-> "none", message |-> ""]
NoAgg == [n_attempts |-> 0, n_billable |-> 0]
CancelledError == [type |-> "CancelledError", message |-> ""]

\* The finally clause would count the page only.
FinallyPageOnly(st, page_type, ag) ==
    IncStats(st, page_type, <<"/pages/count">>, 1, TRUE)

\* The finally clause of __call__, lines 281-284.
Finally(st, page_type, ag) ==
    LET a == IncStats(st, page_type, <<"/pages/count">>, 1, TRUE)
        b == IncStats(a, page_type, <<"/attempts/count">>, ag.n_attempts, FALSE)
    IN  IncStats(b, page_type, <<"/attempts/billable">>, ag.n_billable, FALSE)

\* The cancellation would be counted as an error.
CancelPathAsError(st, page_type, ag) ==
    Finally(IncStats(st, page_type, <<"/pages/errors">>, 1, TRUE),
            page_type, ag)

\* "except CancelledError", lines 273-275, and the finally clause.
CancelPath(st, page_type, ag) ==
    Finally(IncStats(st, page_type, <<"/pages/cancelled">>, 1, TRUE),
            page_type, ag)

\* "except Exception as e", lines 276-280, and the finally clause.
ErrorPath(st, page_type, exc, ag) ==
    LET a == IncStats(st, page_type, <<"/pages/errors">>, 1, TRUE)
        b == IncStats(a, page_type,
                      <<"/pages/errors">> \o SummarizeException(exc), 1, FALSE)
    IN  Finally(b, page_type, ag)

\* Lines 286-295, after the try statement: the objects are built from the
\* payload.  data['html'] raises KeyError when the payload has no html.
BuildRaises(spec, data) == spec.should_request_html /\ ~data.html

\* A structured object would be built for every query.
BuiltStructuredAlways(spec, data) ==
    (IF spec.should_request_html
     THEN << [cls |-> Html, url |-> data.url, html |-> TRUE] >> ELSE <<>>)
    \o << [cls |-> spec.provided_cls, url |-> data.url, html |-> FALSE] >>

\* The structured object would keep the html of the payload.
BuiltUnstripped(spec, data) ==
    (IF spec.should_request_html
     THEN << [cls |-> Html, url |-> data.url, html |-> TRUE] >> ELSE <<>>)
    \o (IF spec.is_extraction_required
        THEN << [cls |-> spec.provided_cls, url |-> data.url,
                 html |-> data.html] >>
        ELSE <<>>)

Built(spec, data) ==
    (IF spec.should_request_html
     THEN << [cls |-> Html, url |-> data.url, html |-> TRUE] >> ELSE <<>>)
    \o (IF spec.is_extraction_required
        THEN << [cls |-> spec.provided_cls, url |-> data.url, html |-> FALSE] >>
        ELSE <<>>)

\* pages/success would not be counted.
BuildStatsHtmlOnly(st, spec) ==
    IF spec.should_request_html
    THEN IncStats(st, spec.provided_cls, <<"/pages/html">>, 1, TRUE)
    ELSE st

BuildStats(st, spec) ==
    LET a == IF spec.should_request_html
             THEN IncStats(st, spec.provided_cls, <<"/pages/html">>, 1, TRUE)
             ELSE st
    IN  IncStats(a, spec.provided_cls, <<"/pages/success">>, 1, TRUE)

\* One pass of the loop body of __call__, lines 268-295, from the moment
\* "await self.task_manager.run(awaitable)" ends with the state st of the
\* task and what it holds (r): the statistics, the objects added, the
\* exception that leaves __call__ and the calls of close_spider.
Interpret(st, spec, tstate, r, ag) ==
    LET pt == spec.provided_cls
        query_error == [type |-> "QueryError", message |-> r.error,
                        query |-> r.query]
    IN  CASE tstate = "cancelled" ->
               [stats |-> CancelPath(st, pt, ag), exc |-> CancelledError,
                built |-> <<>>, closes |-> 0]
          [] tstate = "exception" ->
               [stats |-> ErrorPath(st, pt, r.exc, ag), exc |-> r.exc,
                built |-> <<>>, closes |-> StopIfAccountDisabled(r.exc)]
          [] tstate = "result" /\ r.error # "" ->
               [stats |-> ErrorPath(st, pt, query_error, ag),
                exc |-> query_error, built |-> <<>>,
                closes |-> StopIfAccountDisabled(query_error)]
          [] tstate = "result" /\ r.error = "" /\ BuildRaises(spec, r) ->
               [stats |-> Finally(st, pt, ag),
                exc |-> [type |-> "KeyError", message |-> "html"],
                built |-> <<>>, closes |-> 0]
          [] OTHER ->
               [stats |-> BuildStats(Finally(st, pt, ag), spec),
                exc |-> NoException, built |-> Built(spec, r), closes |-> 0]

\* The calls are numbered in the order in which they arrive.
Arrives(p, t) == IF t = 1 THEN TRUE ELSE p[t - 1] # "idle"

\* The provider has the TaskManager of its crawler (line 100).
ProviderManager == 1

\* The task of the call when one call is looked at.
FirstCall == 1

\* The loop of __call__ reaches "await self.task_manager.run(awaitable)"
\* (lines 257-267) for the first spec of specs, with the statistics st,
\* the objects inst built so far and the running_tasks rt: run() creates
\* the task and either awaits
\* it or, after cancel_all(), raises CancelledError at once, which __call__
\* counts and raises again.
StartQuery(c, specs, st, inst, rt) ==
    LET m == ProviderManager
        pt == Head(specs).provided_cls
    IN  /\ todo' = [todo EXCEPT ![c] = specs]
        /\ instances' = [instances EXCEPT ![c] = inst]
        /\ mgr' = [mgr EXCEPT ![c] = m]
        /\ task' = [task EXCEPT ![c] = "scheduled"]
        /\ pc' = [pc EXCEPT ![c] = "init"]
        /\ slot' = [slot EXCEPT ![c] = 0]
        /\ started' = [started EXCEPT ![c] = FALSE]
        /\ after_cancel' = [after_cancel EXCEPT ![c] = cancel_all_called[m]]
        /\ at_cancel' = [at_cancel EXCEPT ![c] = "no"]
        /\ response' = [response EXCEPT ![c] = NoResponse]
        /\ agg' = [agg EXCEPT ![c] = NoAgg]
        /\ lookup' = [lookup EXCEPT ![c] = "none"]
        /\ IF RunRaises(m)
           THEN /\ running_tasks' = TaskRemoved(TaskAdded(rt, m, c), m, c,
                                                "raised_cancelled")
                /\ call' = [call EXCEPT ![c] = "raised_cancelled"]
                /\ stats' = CancelPath(st, pt, NoAgg)
                /\ ppc' = [ppc EXCEPT ![c] = "raised"]
                /\ raised' = [raised EXCEPT ![c] = CancelledError]
           ELSE /\ running_tasks' = TaskAdded(rt, m, c)
                /\ call' = [call EXCEPT ![c] = "awaiting"]
                /\ stats' = st
                /\ ppc' = [ppc EXCEPT ![c] = "query"]
                /\ raised' = raised

\* __call__(to_provide, request), lines 236-267, up to its first
\* suspension in run(), or to its end when nothing is required.
PCall(c, to_provide, url, order) ==
    /\ provider = "created"
    /\ ppc[c] = "idle" /\ Arrives(ppc, c)
    /\ domain' = [domain EXCEPT ![c] = GetDomain(url)]
    /\ requested' = [requested EXCEPT ![c] = to_provide]
    /\ UNCHANGED fp_call
    /\ LET specs == ListRequiredRequests(to_provide, url, order)
       IN  IF specs = <<>>
           THEN /\ ppc' = [ppc EXCEPT ![c] = "returned"]
                /\ UNCHANGED <<todo, instances, mgr, task, pc, slot, started,
                               after_cancel, at_cancel, response, agg, lookup,
                               running_tasks, call, stats, raised>>
           ELSE StartQuery(c, specs, stats, <<>>, running_tasks)
    /\ UNCHANGED <<mwVars, confVars, slots, sigVars, managers, cancelled,
                   cancel_all_called, must_cancel, running, cache_kind, cache,
                   close_spider_calls>>

\* "to_provide -= {AutoExtractHtml}", line 203: the set of the caller is
\* updated in place; this is what it holds once list_required_requests has
\* returned.
ToProvideAfter(to_provide) == to_provide \ {Html}

\* fingerprint(to_provide, request), lines 299-305, called with a set the
\* caller has just built: the queries come from list_required_requests,
\* which leaves the set of the caller without AutoExtractHtml.
PFingerprint(c, to_provide, url, order) ==
    /\ provider = "created"
    /\ ppc[c] = "idle" /\ ~fp_call[c].called
    /\ fp_call' = [fp_call EXCEPT ![c] =
                     [called |-> TRUE, given |-> to_provide,
                      to_provide |-> ToProvideAfter(to_provide), url |-> url,
                      specs |-> ListRequiredRequests(to_provide, url, order)]]
    /\ UNCHANGED <<mwVars, semVars, sigVars, tmVars, cache_kind, cache,
                   stats, close_spider_calls, ppc, todo, domain, instances,
                   raised, response, agg, lookup, requested>>

\* __call__ called with the set object that fingerprint() was called with,
\* for the same request; the set holds no AutoExtractHtml any more, so line
\* 203 leaves it as it is.
PCallSame(c, order) ==
    /\ fp_call[c].called
    /\ order \in Orders(RequiredTypes(fp_call[c].to_provide))
    /\ PCall(c, fp_call[c].to_provide, fp_call[c].url, order)

\* A hit would be counted as a miss as well.
HitCountedWithMiss(st) ==
    IncValue(IncValue(st, <<"cache", "hit">>, 1), <<"cache", "miss">>, 1)

\* Line 155: the hit is counted.
HitCounted(st) == IncValue(st, <<"cache", "hit">>, 1)

\* do_request_cached, lines 151-158, entered by the task c that has just
\* acquired its gate (s: the slots then): a hit returns the stored
\* response at once, through __aexit__; a miss awaits do_request.
BodyBegin(c, s) ==
    LET q == Head(todo[c]).query
        fp == Fingerprint(cache_kind, q)
        o == AexitOutcome(s, domain[c])
    IN  IF CacheHas(cache_kind, cache, fp)
        THEN /\ stats' = HitCounted(stats)
             /\ lookup' = [lookup EXCEPT ![c] = "hit"]
             /\ slots' = o.slots
             /\ pc' = Wake([pc EXCEPT ![c] = IF o.error = "none" THEN "returned"
                                             ELSE "exit_error"],
                           o.woken, "woken")
             /\ task' = [task EXCEPT ![c] = IF o.error = "none" THEN "result"
                                            ELSE "exception"]
             /\ response' = [response EXCEPT ![c] =
                               IF o.error = "none" THEN cache[fp]
                               ELSE [kind |-> "exception",
                                     exc |-> [type |-> o.error, message |-> ""]]]
        ELSE /\ stats' = IncValue(stats, <<"cache", "miss">>, 1)
             /\ lookup' = [lookup EXCEPT ![c] = "miss"]
             /\ slots' = s
             /\ pc' = [pc EXCEPT ![c] = "body"]
             /\ task' = [task EXCEPT ![c] = "suspended"]
             /\ response' = response

\* The task is suspended in acquire() (slot_semaphore.py line 98).
GateWait(c, s) ==
    /\ slots' = Queued(s, domain[c], c)
    /\ pc' = [pc EXCEPT ![c] = "waiting"]
    /\ task' = [task EXCEPT ![c] = "suspended"]
    /\ UNCHANGED <<stats, lookup, response>>

\* First step of the task of run(): SlotsSemaphore.run enters the slot of
\* the domain and, with a permit, goes on into do_request_cached.
PTaskStart(c) ==
    /\ task[c] = "scheduled" /\ ~must_cancel[c]
    /\ slot' = [slot EXCEPT ![c] = domain[c]]
    /\ started' = [started EXCEPT ![c] = TRUE]
    /\ LET s == Registered(slots, domain[c])
       IN  IF CanAcquire(s, domain[c])
           THEN BodyBegin(c, Acquired(s, domain[c]))
           ELSE GateWait(c, s)
    /\ UNCHANGED <<mwVars, confVars, sigVars, managers, cancelled,
                   running_tasks, cancel_all_called, mgr, call, must_cancel,
                   running, after_cancel, at_cancel, cache_kind, cache,
                   close_spider_calls, ppc, todo, domain, requested, fp_call, instances, raised,
                   agg>>

\* The task woken by a release runs again in acquire().
PTaskResume(c) ==
    /\ task[c] = "suspended" /\ pc[c] = "woken" /\ ~must_cancel[c]
    /\ IF CanAcquire(slots, domain[c])
       THEN BodyBegin(c, Acquired(slots, domain[c]))
       ELSE GateWait(c, slots)
    /\ UNCHANGED <<mwVars, confVars, slot, sigVars, managers, cancelled,
                   running_tasks, cancel_all_called, mgr, call, must_cancel,
                   running, started, after_cancel, at_cancel, cache_kind,
                   cache, close_spider_calls, ppc, todo, domain, requested, fp_call, instances,
                   raised, agg>>

\* What the transport (request_raw) can answer to a query: a payload
\* (with or without the 'error' key, with or without 'html'), or an
\* exception; and the attempts and the billable responses it counted in
\* agg_stats meanwhile (an answer after retries has MaxAttempts attempts).
Payload(error, html) ==
    [kind |-> "payload", error |-> error, html |-> html]

Failure(type, message) ==
    [kind |-> "exception", exc |-> [type |-> type, message |-> message]]

TransportResults ==
    {[resp |-> Payload("", h), n_attempts |-> 1, n_billable |-> 1] :
        h \in BOOLEAN}
    \cup {[resp |-> Payload("E", FALSE), n_attempts |-> 1, n_billable |-> 1],
          [resp |-> Payload("Domain occupied, retry in N", FALSE),
           n_attempts |-> MaxAttempts, n_billable |-> 0],
          [resp |-> Failure("RequestError", "account_disabled"),
           n_attempts |-> 1, n_billable |-> 0],
          [resp |-> Failure("RequestError", "other"),
           n_attempts |-> MaxAttempts, n_billable |-> 0],
          [resp |-> Failure("TimeoutError", ""),
           n_attempts |-> 1, n_billable |-> 0]}

\* The payload as the provider holds it: data['query'] is the query it
\* answers and data[page_type]['url'] the url of that query.
Received(resp, q) ==
    IF resp.kind = "payload"
    THEN [kind |-> "payload", error |-> resp.error, html |-> resp.html,
          url |-> q.url, query |-> q]
    ELSE resp

\* No response would be stored.
CacheableNever(r) == FALSE

\* Every response would be stored.
CacheableAlways(r) == TRUE

\* do_request_cached, lines 160-164: the response is stored unless its
\* payload has the 'error' key.
Cacheable(r) == r.error = ""

\* do_request answers (line 159): do_request_cached goes on to its end and
\* SlotsSemaphore.run leaves through __aexit__.
PResponse(c, res) ==
    /\ task[c] = "suspended" /\ pc[c] = "body" /\ ~must_cancel[c]
    /\ LET q == Head(todo[c]).query
           fp == Fingerprint(cache_kind, q)
           r == Received(res.resp, q)
           o == AexitOutcome(slots, domain[c])
       IN  /\ res.resp.kind = "payload" /\ res.resp.html => q.fullHtml
           /\ agg' = [agg EXCEPT ![c] = [n_attempts |-> res.n_attempts,
                                         n_billable |-> res.n_billable]]
           /\ IF r.kind = "payload"
              THEN IF Cacheable(r)
                   THEN /\ cache' = CacheSet(cache_kind, cache, fp, r)
                        /\ stats' = IncValue(stats, <<"cache", "firsthand">>, 1)
                   ELSE /\ cache' = cache
                        /\ stats' = IncValue(stats, <<"cache", "uncacheable">>, 1)
              ELSE UNCHANGED <<cache, stats>>
           /\ slots' = o.slots
           /\ pc' = Wake([pc EXCEPT ![c] =
                             IF o.error # "none" THEN "exit_error"
                             ELSE IF r.kind = "payload" THEN "returned"
                             ELSE "raised"],
                         o.woken, "woken")
           /\ task' = [task EXCEPT ![c] =
                         IF o.error = "none" /\ r.kind = "payload"
                         THEN "result" ELSE "exception"]
           /\ response' = [response EXCEPT ![c] =
                             IF o.error = "none" THEN r
                             ELSE Failure(o.error, "")]
    /\ UNCHANGED <<mwVars, confVars, slot, sigVars, managers, cancelled,
                   running_tasks, cancel_all_called, mgr, call, must_cancel,
                   running, started, after_cancel, at_cancel, cache_kind,
                   close_spider_calls, ppc, todo, domain, requested, fp_call, instances, raised,
                   lookup>>

\* The CancelledError reaches the task: before its first instruction, in
\* acquire(), or in do_request.
PTaskCancelled(c) ==
    /\ task[c] \in {"scheduled", "suspended"} /\ must_cancel[c]
    /\ LET o == CancelledOutcome(pc, slots, c)
       IN  /\ slots' = o.slots
           /\ pc' = o.pc
           /\ task' = [task EXCEPT ![c] = IF o.pc[c] = "exit_error"
                                          THEN "exception" ELSE "cancelled"]
           /\ response' = [response EXCEPT ![c] =
                             IF o.pc[c] = "exit_error"
                             THEN Failure("KeyError", "") ELSE NoResponse]
    /\ must_cancel' = [must_cancel EXCEPT ![c] = FALSE]
    /\ UNCHANGED <<mwVars, confVars, slot, sigVars, managers, cancelled,
                   running_tasks, cancel_all_called, mgr, call, running,
                   started, after_cancel, at_cancel, cache_kind, cache, stats,
                   close_spider_calls, ppc, todo, domain, requested, fp_call, instances, raised,
                   agg, lookup>>

\* "response = await self.task_manager.run(awaitable)" goes on once the
\* task has ended: the finally clause of run(), then lines 268-295, then
\* the next spec of the loop or the end of __call__.
\* The loop would go on after a query that failed.
LoopGoesOnAlways(exc, specs) == Len(specs) > 1

\* The for loop of __call__, line 247: the next spec is taken when the
\* body ended without an exception and a spec is left.
LoopGoesOn(exc, specs) == exc = NoException /\ Len(specs) > 1

PAwaited(c) ==
    /\ ppc[c] = "query" /\ call[c] = "awaiting" /\ task[c] \in TaskEnded
    /\ LET spec == Head(todo[c])
           r == Interpret(stats, spec, task[c], response[c], agg[c])
           rt == TaskRemoved(running_tasks, mgr[c], c, AwaitOutcome(task[c]))
       IN  IF LoopGoesOn(r.exc, todo[c])
           THEN /\ StartQuery(c, Tail(todo[c]), r.stats,
                              instances[c] \o r.built, rt)
                /\ UNCHANGED close_spider_calls
           ELSE /\ ppc' = [ppc EXCEPT ![c] = IF r.exc = NoException
                                             THEN "returned" ELSE "raised"]
                /\ raised' = [raised EXCEPT ![c] = r.exc]
                /\ instances' = [instances EXCEPT ![c] =
                                   IF r.exc = NoException
                                   THEN instances[c] \o r.built ELSE <<>>]
                /\ stats' = r.stats
                /\ close_spider_calls' = close_spider_calls + r.closes
                /\ running_tasks' = rt
                /\ call' = [call EXCEPT ![c] = AwaitOutcome(task[c])]
                /\ UNCHANGED <<todo, mgr, task, pc, slot, started,
                               after_cancel, at_cancel, response, agg, lookup>>
    /\ UNCHANGED <<mwVars, confVars, slots, sigVars, managers, cancelled,
                   cancel_all_called, must_cancel, running, cache_kind, cache,
                   domain, requested, fp_call>>

\* Task.cancel() on every task of T that runs SlotsSemaphore.run: the
\* futures pending in acquire() are cancelled.
GateCancelAll(T) ==
    /\ pc' = [t \in Tasks |-> IF t \in T THEN CancelledPc(pc, slots, t)
                              ELSE pc[t]]
    /\ slots' = [k \in DOMAIN slots |->
                   [slots[k] EXCEPT !.waiters =
                       SelectSeq(@, LAMBDA x : ~(x \in T /\ pc[x] = "waiting"))]]

\* cancel_all() on the manager of the provider, called by the program or
\* by the handler of the signal (TMSignal), between two steps.
PCancelAll ==
    /\ CancelAllOn({ProviderManager})
    /\ GateCancelAll(CancelTargets({ProviderManager}))
    /\ UNCHANGED <<mwVars, confVars, slot, sigVars, managers,
                   running_tasks, mgr, call, task, running, started,
                   after_cancel, provVars>>

\* The settings of the crawler that get_concurrent_requests_per_domain
\* reads: Scrapy always defines CONCURRENT_REQUESTS_PER_DOMAIN, the
\* project may define AUTOEXTRACT_CONCURRENT_REQUESTS_PER_DOMAIN.
GeneralLimit(g) == "CONCURRENT_REQUESTS_PER_DOMAIN" :> g

BothLimits(a, g) ==
    ("AUTOEXTRACT_CONCURRENT_REQUESTS_PER_DOMAIN" :> a) @@ GeneralLimit(g)

\* Settings.getint(name, default).
GetInt(st, name, default) == IF name \in DOMAIN st THEN st[name] ELSE default

\* The limit of AutoExtract would be returned as it is read.
ConcurrencyUnchecked(st) ==
    [raises |-> FALSE,
     value |-> GetInt(st, "AUTOEXTRACT_CONCURRENT_REQUESTS_PER_DOMAIN", -1)]

\* get_concurrent_requests_per_domain(settings), lines 61-72: what it
\* returns, or that it raises ValueError.
GetConcurrentRequestsPerDomain(st) ==
    LET specific == GetInt(st, "AUTOEXTRACT_CONCURRENT_REQUESTS_PER_DOMAIN", -1)
        concurrency == IF specific = -1
                       THEN GetInt(st, "CONCURRENT_REQUESTS_PER_DOMAIN", 0)
                       ELSE specific
    IN  [raises |-> concurrency < 1, value |-> concurrency]

NoRequest == [url |-> "", method |-> "", body |-> <<>>, meta |-> <<>>]

\* No middleware is looked at.
MwNone ==
    mw = <<>> /\ request = NoRequest /\ mw_result = "none" /\ mw_log = <<>>

\* fingerprint() has not been called for the request.
NoFpCall == [called |-> FALSE, given |-> {}, to_provide |-> {}, url |-> "",
             specs |-> <<>>]

ProvInit ==
    /\ cache_kind \in {"DummyCache", "AutoExtractCache"}
    /\ cache = <<>>
    /\ stats = <<>>
    /\ close_spider_calls = 0
    /\ ppc = [t \in Tasks |-> "idle"]
    /\ todo = [t \in Tasks |-> <<>>]
    /\ domain = [t \in Tasks |-> 0]
    /\ instances = [t \in Tasks |-> <<>>]
    /\ raised = [t \in Tasks |-> NoException]
    /\ response = [t \in Tasks |-> NoResponse]
    /\ agg = [t \in Tasks |-> NoAgg]
    /\ lookup = [t \in Tasks |-> "none"]
    /\ requested = [t \in Tasks |-> {}]
    /\ fp_call = [t \in Tasks |-> NoFpCall]

\* AutoExtractProvider.__init__, lines 95-117: the TaskManager of the
\* crawler is created (and installs its handler), then the semaphore and
\* the cache.  CONCURRENT_REQUESTS_PER_DOMAIN is 1: two calls of one domain
\* contend for the slot.
ProviderCreated ==
    /\ SemInit /\ ProvInit
    /\ settings = GeneralLimit(1) /\ provider = "created" /\ MwNone
    /\ concurrency_per_slot = 1
    /\ first_handler = "returns"
    /\ sig_handler = ProviderManager
    /\ old_handler = [m \in Managers |-> 0]
    /\ sig_log = <<>>
    /\ managers = 1
    /\ cancelled = [m \in Managers |-> FALSE]
    /\ running_tasks = [m \in Managers |-> {}]
    /\ cancel_all_called = [m \in Managers |-> FALSE]
    /\ mgr = [t \in Tasks |-> 0]
    /\ call = [t \in Tasks |-> "idle"]
    /\ task = [t \in Tasks |-> "none"]
    /\ must_cancel = [t \in Tasks |-> FALSE]
    /\ running = 0
    /\ started = [t \in Tasks |-> FALSE]
    /\ after_cancel = [t \in Tasks |-> FALSE]
    /\ at_cancel = [t \in Tasks |-> "no"]

\* What the calls of SpecProv ask for.
ToProvide == {{"product"}, {Html, "product"}, {"product", "article"}}

ProvNext ==
    \/ \E c \in Calls, tp \in ToProvide, url \in Urls :
         \E order \in Orders(RequiredTypes(tp)) :
            PCall(c, tp, url, order)
    \/ \E c \in Calls : PTaskStart(c)
    \/ \E c \in Calls : PTaskResume(c)
    \/ \E c \in Calls, res \in TransportResults : PResponse(c, res)
    \/ \E c \in Calls : PTaskCancelled(c)
    \/ \E c \in Calls : PAwaited(c)
    \/ PCancelAll

\* ------------------------------------------------------- specifications
\* SlotsSemaphore.run used directly by NumTasks tasks, as the tests of the
\* semaphore do; no TaskManager exists.
InitSem ==
    /\ SemInit /\ SigInit /\ TMInit /\ ProvInit
    /\ settings = <<>> /\ provider = "none" /\ MwNone
    /\ first_handler = "SIG_DFL"
    /\ cache_kind = "DummyCache"

SpecSem == InitSem /\ [][SemNext]_vars

\* SlotsSemaphore(concurrency_per_slot), lines 42-48, with any capacity:
\* the constructor stores what it is given.
InitSemAny ==
    /\ concurrency_per_slot \in (-1)..MaxCapacity
    /\ slots = <<>>
    /\ pc = [t \in Tasks |-> "init"]
    /\ slot = [t \in Tasks |-> 0]
    /\ SigInit /\ TMInit /\ ProvInit
    /\ first_handler = "SIG_DFL"
    /\ cache_kind = "DummyCache"
    /\ settings = <<>> /\ provider = "none" /\ MwNone

SpecSemAny == InitSemAny /\ [][SemNext]_vars

\* The same tasks when none is cancelled and every body terminates: the
\* event loop runs every task that a release has woken, and every
\* awaitable that holds the gate ends.
SemNextNoCancel ==
    \/ \E t \in Tasks, k \in Keys : SemRun(t, k)
    \/ \E t \in Tasks : SemResume(t)
    \/ \E t \in Tasks, how \in {"returned", "raised"} : SemBodyEnds(t, how)

SpecSemFair ==
    /\ InitSem /\ [][SemNextNoCancel]_vars
    /\ \A t \in Tasks : WF_vars(SemResume(t))
    /\ \A t \in Tasks : WF_vars(\E how \in {"returned", "raised"} :
                                    SemBodyEnds(t, how))

\* TaskManager objects running any awaitables, and the signal.
InitTM ==
    /\ SemInit /\ SigInit /\ TMInit /\ ProvInit
    /\ settings = <<>> /\ provider = "none" /\ MwNone
    /\ concurrency_per_slot = 1
    /\ cache_kind = "DummyCache"

SpecTM == InitTM /\ [][TMNext]_vars

\* AutoExtractProvider.__init__, lines 95-117, with the settings of the
\* crawler: the TaskManager is created (line 100), then the limit is
\* resolved and, unless that raises ValueError, the semaphore is created
\* with it (lines 107-108) and the cache chosen.
ProviderInit ==
    /\ provider = "none"
    /\ managers' = 1 /\ sig_handler' = ProviderManager
    /\ LET r == GetConcurrentRequestsPerDomain(settings)
       IN  IF r.raises
           THEN provider' = "ValueError" /\ UNCHANGED concurrency_per_slot
           ELSE provider' = "created" /\ concurrency_per_slot' = r.value
    /\ UNCHANGED <<mwVars, settings, slots, pc, slot, first_handler, old_handler,
                   sig_log, cancelled, running_tasks, cancel_all_called, mgr,
                   call, task, must_cancel, running, started, after_cancel,
                   at_cancel, provVars>>

\* The values a limit is given in the settings.
MaxLimit == 2

\* The calls of the middleware that one request is followed through.
MaxMwCalls == 3
Limits == (-MaxLimit)..MaxLimit

\* A crawler whose provider is not constructed yet: no semaphore, no
\* TaskManager.
CrawlerCreated ==
    /\ SigInit /\ TMInit /\ ProvInit
    /\ first_handler = "returns"
    /\ settings \in {GeneralLimit(g) : g \in Limits}
                    \cup {BothLimits(a, g) : a, g \in Limits}
    /\ provider = "none" /\ MwNone
    /\ concurrency_per_slot = 0
    /\ slots = <<>>
    /\ pc = [t \in Tasks |-> "init"]
    /\ slot = [t \in Tasks |-> 0]

\* The provider is constructed, then serves one call for a page type.
ConfNext ==
    \/ ProviderInit
    \/ \E url \in Urls : PCall(FirstCall, {PageTypeForHtml}, url, <<PageTypeForHtml>>)
    \/ PTaskStart(FirstCall)
    \/ \E res \in TransportResults : PResponse(FirstCall, res)
    \/ PAwaited(FirstCall)

SpecConf == CrawlerCreated /\ [][ConfNext]_vars

\* A provider with CONCURRENT_REQUESTS_PER_DOMAIN = 2 and a cache file.
ProviderCreatedTwo ==
    /\ ProvInit /\ TMInit /\ MwNone
    /\ cache_kind = "AutoExtractCache"
    /\ settings = GeneralLimit(2) /\ provider = "created"
    /\ concurrency_per_slot = GetConcurrentRequestsPerDomain(settings).value
    /\ slots = <<>>
    /\ pc = [t \in Tasks |-> "init"]
    /\ slot = [t \in Tasks |-> 0]
    /\ first_handler = "returns"
    /\ sig_handler = ProviderManager
    /\ old_handler = [m \in Managers |-> 0]
    /\ sig_log = <<>>

\* Its calls ask for one page type; no slot is ever short for them.
FlightNext ==
    \/ \E c \in Calls, url \in Urls :
         PCall(c, {PageTypeForHtml}, url, <<PageTypeForHtml>>)
    \/ \E c \in Calls : PTaskStart(c)
    \/ \E c \in Calls, res \in TransportResults : PResponse(c, res)
    \/ \E c \in Calls : PTaskCancelled(c)
    \/ \E c \in Calls : PAwaited(c)
    \/ PCancelAll

SpecFlight == ProviderCreatedTwo /\ [][FlightNext]_vars

\* A provider serving NumCalls concurrent calls of __call__.
SpecProv == ProviderCreated /\ [][ProvNext]_vars

\* One call of __call__, with any set of classes to provide.
AnyToProvide == SUBSET (PageTypes \cup {Html})

CallNext ==
    \/ \E tp \in AnyToProvide, url \in Urls :
         \E order \in Orders(RequiredTypes(tp)) :
            PCall(FirstCall, tp, url, order)
    \/ PTaskStart(FirstCall)
    \/ \E res \in TransportResults : PResponse(FirstCall, res)
    \/ PTaskCancelled(FirstCall)
    \/ PAwaited(FirstCall)
    \/ PCancelAll

SpecCall == ProviderCreated /\ [][CallNext]_vars

\* One request for which the caller builds one set of classes and passes
\* it to fingerprint() and then to __call__().
SameSetNext ==
    \/ \E tp \in AnyToProvide, url \in Urls :
         \E order \in Orders(RequiredTypes(tp)) :
            PFingerprint(FirstCall, tp, url, order)
    \/ \E order \in Orders(RequiredTypes(fp_call[FirstCall].to_provide)) :
         PCallSame(FirstCall, order)
    \/ PTaskStart(FirstCall)
    \/ \E res \in TransportResults : PResponse(FirstCall, res)
    \/ PTaskCancelled(FirstCall)
    \/ PAwaited(FirstCall)
    \/ PCancelAll

SpecSameSet == ProviderCreated /\ [][SameSetNext]_vars

\* ---------------------------------------------------------------- claims
InSectionOf(k) == {t \in Tasks : slot[t] = k /\ pc[t] \in InSection}
AtGateOf(k) == {t \in Tasks : slot[t] = k /\ pc[t] \in AtGate}
UsersOf(k) == {t \in Tasks : slot[t] = k}

\* C1: for every capacity and every interleaving of the tasks of a key
\* (new keys, failing and cancelled bodies included), the number of tasks
\* inside the protected section of the key never exceeds the capacity.
C1_AtMostCapacityInSection ==
    \A k \in Keys : Cardinality(InSectionOf(k)) <= concurrency_per_slot

\* The section of a key is full, a task of the key waits at the gate, and
\* a task of the key has already left by a failure or a cancellation.
C1_Witness ==
    \E k \in Keys :
        /\ Cardinality(InSectionOf(k)) = concurrency_per_slot
        /\ \E t \in AtGateOf(k) : pc[t] = "waiting"
        /\ \E t \in UsersOf(k) : pc[t] \in {"raised", "cancelled_in_body"}

\* C6: once all the tasks that used a key have completed (their body
\* returned or raised), the key has no entry in slots; once every task
\* has completed, slots is empty.
C6_NoEntryAfterCompletion ==
    /\ \A k \in Keys :
        (UsersOf(k) # {} /\ \A t \in UsersOf(k) : pc[t] \in BodyEnded)
            => k \notin DOMAIN slots
    /\ (\A t \in Tasks : pc[t] \in BodyEnded) => DOMAIN slots = {}

\* Every task has completed, two of them on one key, one by a failure.
C6_Witness ==
    /\ \A t \in Tasks : pc[t] \in BodyEnded
    /\ \E k \in Keys : Cardinality(UsersOf(k)) >= 2
    /\ \E t \in Tasks : pc[t] = "raised"
    /\ DOMAIN slots = {}

\* C7: at every suspension point a key is in slots exactly when its tasks
\* are registered: no entry has a counter of 0 or less, and the key of
\* every task that waits for or holds a gate has an entry.
C7_EntryIffRegistered ==
    /\ \A k \in DOMAIN slots : slots[k].registered_tasks > 0
    /\ \A t \in Tasks : pc[t] \in AtGate \cup InSection => slot[t] \in DOMAIN slots

\* One key holds two registered tasks while another key, used and
\* released before, has no entry any more.
C7_Witness ==
    \E k1, k2 \in Keys :
        /\ k1 \in DOMAIN slots /\ slots[k1].registered_tasks = 2
        /\ k2 \notin DOMAIN slots
        /\ \E t \in UsersOf(k2) : pc[t] \in BodyEnded

CallEnded == {"returned", "raised_error", "raised_cancelled"}

\* C2 as stated: every call of run() in progress when cancel_all() runs
\* ends with CancelledError.
C2_InProgressEndCancelled ==
    \A t \in Tasks :
        (at_cancel[t] # "no" /\ call[t] \in CallEnded)
            => call[t] = "raised_cancelled"

\* C2, amended: every call of run() in progress when cancel_all() runs
\* ends with CancelledError and none returns a result, except that a task
\* which is in the middle of a step when cancel_all() runs, and ends that
\* step by raising, gives its call that exception.
C2_InProgressEndCancelledOrOwnError ==
    \A t \in Tasks :
        (at_cancel[t] # "no" /\ call[t] \in CallEnded)
            => \/ call[t] = "raised_cancelled"
               \/ call[t] = "raised_error" /\ at_cancel[t] = "midstep"

\* Two calls in progress when cancel_all() ran have both ended, by
\* CancelledError, one of them cancelled after it had started.
C2_Witness ==
    /\ \A t \in Calls : at_cancel[t] = "between" /\ call[t] = "raised_cancelled"
    /\ \E t \in Calls : started[t]

\* C3: after cancel_all(), run() does not schedule the submitted work: it
\* never executes a step, and no task of it is alive once run() raised.
C3_NoWorkAfterCancel ==
    \A t \in Tasks :
        after_cancel[t] =>
            /\ ~started[t]
            /\ call[t] = "raised_cancelled" => task[t] \notin TaskLive

\* C4: every call of run() made after cancel_all() (explicit or by the
\* signal) ends by raising CancelledError, never by returning a result.
C4_RunAfterCancelRaises ==
    \A t \in Tasks : after_cancel[t] => call[t] = "raised_cancelled"

\* A call made after the signal ran cancel_all() has raised CancelledError.
C4_Witness ==
    \E t \in Tasks :
        /\ after_cancel[t] /\ call[t] = "raised_cancelled"
        /\ sig_log # <<>>

\* C5: running_tasks of a manager holds exactly the tasks of its calls of
\* run() in progress, so len(manager) is their number, and 0 when none is.
C5_LiveSetIsCallsInProgress ==
    \A m \in Managers :
        running_tasks[m] = {t \in Tasks : mgr[t] = m /\ call[t] = "awaiting"}

\* A manager with one call in progress after another call of it ended by
\* cancellation and was removed.
C5_Witness ==
    \E m \in Managers :
        /\ Cardinality(running_tasks[m]) = 1
        /\ \E t \in Tasks : /\ mgr[t] = m /\ at_cancel[t] # "no"
                            /\ call[t] = "raised_cancelled"

Position(log, e) == CHOOSE i \in 1..Len(log) : log[i] = e
Occurs(log, e) == \E i \in 1..Len(log) : log[i] = e

\* C9: when the signal is delivered and a handler was installed before the
\* managers were created, the old handler runs first, then cancel_all()
\* of every manager runs, also when the old handler raised, and its
\* exception is raised again only after cancel_all() has run.
C9_OldHandlerThenCancelAll ==
    (sig_log # <<>> /\ first_handler # "SIG_DFL") =>
        /\ sig_log[2] = <<"old_handler", 0>>
        /\ \A m \in 1..sig_log[1][2] :
            /\ Occurs(sig_log, <<"cancel_all", m>>)
            /\ cancelled[m]
            /\ Occurs(sig_log, <<"raise", m>>) <=> first_handler = "raises"
            /\ first_handler = "raises" =>
                 Position(sig_log, <<"cancel_all", m>>)
                     < Position(sig_log, <<"raise", m>>)

\* The signal was delivered with a raising old handler while a call of
\* run() was in progress.
C9_Witness ==
    /\ sig_log # <<>>
    /\ first_handler = "raises"
    /\ \E t \in Tasks : at_cancel[t] # "no"

\* A response that carries the 'error' marker comes back from do_request
\* to the task c in this step.
ErrorReceived(c) ==
    /\ pc[c] = "body" /\ task[c] = "suspended" /\ task'[c] = "result"
    /\ response'[c].kind = "payload"
    /\ response'[c].error # ""

NoErrorEntry == \A fp \in DOMAIN cache : cache[fp].error = ""

\* C8: no entry of the cache ever holds a response whose payload has the
\* 'error' marker, and the step of do_request_cached that receives such a
\* response leaves the cache as it was, so that the identical query that
\* follows misses the cache and calls the transport again.
C8_ErrorsNeverCached ==
    /\ []NoErrorEntry
    /\ [][\A c \in Calls : ErrorReceived(c) => cache' = cache]_vars

\* With the real cache, a call has ended on an error response and the
\* identical query of another call has then missed the cache and is
\* waiting for the transport.
C8_Witness ==
    /\ cache_kind = "AutoExtractCache"
    /\ \E c, d \in Calls :
         /\ c # d
         /\ ppc[c] = "raised" /\ raised[c].type = "QueryError"
         /\ lookup[c] = "miss"
         /\ ppc[d] = "query" /\ pc[d] = "body" /\ lookup[d] = "miss"
         /\ Head(todo[d]).query = Head(todo[c]).query
         /\ Fingerprint(cache_kind, Head(todo[d]).query) \notin DOMAIN cache

Total(suffix) == GetValue(stats, <<"total", suffix>>)

\* C10: whenever no query is in progress, pages/count is the sum of
\* pages/success, pages/errors and pages/cancelled: every query that was
\* processed is counted in exactly one of the three.
C10_EveryQueryCounted ==
    (\A c \in Calls : ppc[c] # "query")
        => Total("/pages/count") = Total("/pages/success")
              + Total("/pages/errors") + Total("/pages/cancelled")

\* The statistic autoextract/<who><suffix> in st.
Stat(st, who, suffix) == GetValue(st, <<who, suffix>>)

\* The statistic grows by n in this step.
Grows(who, suffix, n) == Stat(stats', who, suffix) = Stat(stats, who, suffix) + n

\* The run() of a query of the call c raises CancelledError in this step.
QueryCancelled(c) == call[c] # "raised_cancelled" /\ call'[c] = "raised_cancelled"

\* C11: when a call is cancelled, __call__ raises CancelledError and no
\* other exception, pages/cancelled and pages/count grow by 1 (total and
\* per output type) and pages/errors does not change.  (When the step also
\* ends the preceding query of the call, total pages/count grows by that
\* success too.)
C11_CancelledCounted ==
    [][\A c \in Calls : QueryCancelled(c) =>
          LET pt == Head(todo'[c]).provided_cls
          IN  /\ ppc'[c] = "raised" /\ raised'[c] = CancelledError
              /\ Grows("total", "/pages/cancelled", 1)
              /\ Grows(pt, "/pages/cancelled", 1)
              /\ Grows(pt, "/pages/count", 1)
              /\ Stat(stats', "total", "/pages/count")
                   - Stat(stats, "total", "/pages/count")
                 = 1 + Stat(stats', "total", "/pages/success")
                     - Stat(stats, "total", "/pages/success")
              /\ Grows("total", "/pages/errors", 0)
              /\ Grows(pt, "/pages/errors", 0)]_vars

\* A call was cancelled after its task had started, and it is the only
\* query counted so far.
C11_Witness ==
    \E c \in Calls :
        /\ call[c] = "raised_cancelled" /\ started[c]
        /\ ppc[c] = "raised" /\ raised[c] = CancelledError
        /\ Total("/pages/cancelled") = 1 /\ Total("/pages/count") = 1
        /\ Total("/pages/errors") = 0

\* The task t suspends in acquire() in this step.
StartsWaiting(t) == pc[t] # "waiting" /\ pc'[t] = "waiting"

\* The tasks of the key k that a release has woken and that have not run
\* since: the permit released is theirs to take.
WokenOf(k) == {t \in Tasks : slot[t] = k /\ pc[t] \in {"woken", "woken_cancelled"}}

\* C12 as stated: a task waits for the gate of its key only in states
\* where as many tasks of the same key as the capacity are inside the
\* section.
C12_WaitsOnlyWhenFull ==
    \A t \in Tasks : pc[t] = "waiting" =>
        Cardinality(InSectionOf(slot[t])) = concurrency_per_slot

\* C12, amended: tasks of different keys never throttle each other.  The free
\* permits of a key are its capacity less the tasks of that key inside
\* the section; a task suspends at the gate of its key only when as many
\* tasks of the same key as the capacity are inside the section, and
\* stays suspended only while they are, or while a task of the same key
\* woken by a release has not run yet.
C12_OnlySameKeyDelays ==
    /\ [](\A k \in DOMAIN slots :
            slots[k].value = concurrency_per_slot - Cardinality(InSectionOf(k)))
    /\ [](\A t \in Tasks : pc[t] = "waiting" =>
            \/ Cardinality(InSectionOf(slot[t])) = concurrency_per_slot
            \/ WokenOf(slot[t]) # {})
    /\ [][\A t \in Tasks : StartsWaiting(t) =>
            Cardinality(InSectionOf(slot'[t])) = concurrency_per_slot]_vars

\* Every key has a task inside its section at once, while the section of
\* one key is full and a task of that key waits.
C12_Witness ==
    /\ \A k \in Keys : InSectionOf(k) # {}
    /\ \E k \in Keys :
         /\ Cardinality(InSectionOf(k)) = concurrency_per_slot
         /\ \E t \in UsersOf(k) : pc[t] = "waiting"

\* C13: the flag of a manager is false when the manager is created, true
\* once cancel_all() has run (called or by the signal), and no operation
\* resets it; cancel_all() on a manager already cancelled leaves its flag
\* and its running_tasks as they are.
C13_FlagNeverReset ==
    /\ [](\A m \in Managers : m > managers => ~cancelled[m])
    /\ [](\A m \in Managers : cancel_all_called[m] => cancelled[m])
    /\ [][\A m \in Managers : cancelled[m] => cancelled'[m]]_vars
    /\ [](\A m \in Managers : cancelled[m] => FlagSet(cancelled, {m}) = cancelled)
    /\ [][cancelled' # cancelled => running_tasks' = running_tasks]_vars

\* A manager cancelled by the signal still has a call in progress whose
\* task the first cancel_all() has asked to cancel: cancel_all() can be
\* called again.
C13_Witness ==
    \E m \in Managers :
        /\ cancelled[m] /\ sig_log # <<>>
        /\ \E t \in running_tasks[m] : must_cancel[t]
        /\ \E n \in Managers : n <= managers /\ ~cancelled[n]

\* C14: when every body terminates and no task is cancelled, every task
\* submitted to run() eventually enters the section and completes, however
\* many tasks share the key, and once the submitted tasks have completed
\* no key has registered tasks left.
C14_EveryTaskCompletes ==
    /\ \A t \in Tasks : (pc[t] # "init") ~> (pc[t] \in {"returned", "raised"})
    /\ []((\A t \in Tasks : pc[t] \in {"init", "returned", "raised"})
            => DOMAIN slots = {})

\* More tasks than the capacity share one key: one has completed, its
\* release has woken the task that was delayed, the others hold the gate.
C14_Witness ==
    /\ concurrency_per_slot < NumTasks
    /\ \A t \in Tasks : slot[t] = 1
    /\ \E t \in Tasks : pc[t] = "woken"
    /\ \E t \in Tasks : pc[t] \in {"returned", "raised"}
    /\ Cardinality(InSectionOf(1)) = concurrency_per_slot - 1

\* The call c goes on in this step after the run() of its query ended.
QueryEnds(c) ==
    /\ ppc[c] = "query" /\ call[c] = "awaiting" /\ task[c] \in TaskEnded
    /\ call'[c] # call[c] \/ task'[c] # task[c]

\* The query of c has ended with a payload that has the 'error' marker.
ErrorPayload(c) == task[c] = "result" /\ response[c].error # ""

\* What C15 says of the step that processes such a payload, the
\* classification being counted under reason.
QueryErrorCounted(c, reason) ==
    LET pt == Head(todo[c]).provided_cls
    IN  /\ ppc'[c] = "raised"
        /\ raised'[c] = [type |-> "QueryError", message |-> response[c].error,
                         query |-> Head(todo[c]).query]
        /\ Grows("total", "/pages/errors", 1)
        /\ Grows(pt, "/pages/errors", 1)
        /\ GetValue(stats', <<"total", "/pages/errors", "/query", reason>>)
             = GetValue(stats, <<"total", "/pages/errors", "/query", reason>>) + 1
        /\ Grows("total", "/pages/success", 0)
        /\ Grows(pt, "/pages/success", 0)

\* C15 as stated: a payload with the 'error' marker makes __call__ raise
\* QueryError with the query and the message of the payload; pages/errors
\* grows by 1 (total and per output type) together with
\* total/pages/errors/query/<message>, and pages/success does not grow.
C15_QueryErrorCountedByMessage ==
    [][\A c \in Calls : (QueryEnds(c) /\ ErrorPayload(c)) =>
          QueryErrorCounted(c, response[c].error)]_vars

\* C15, amended: the same, the classification being counted under
\* total/pages/errors/query/domain occupied when the message is a
\* domain-occupied message, and under the message otherwise.
C15_QueryErrorCountedByReason ==
    [][\A c \in Calls : (QueryEnds(c) /\ ErrorPayload(c)) =>
          QueryErrorCounted(c,
              IF response[c].error = "Domain occupied, retry in N"
              THEN "domain occupied" ELSE response[c].error)]_vars

\* A call has raised the QueryError of a payload whose message is E.
C15_Witness ==
    /\ ppc[FirstCall] = "raised" /\ raised[FirstCall].type = "QueryError"
    /\ raised[FirstCall].message = "E"
    /\ response[FirstCall].error = "E"
    /\ GetValue(stats, <<"total", "/pages/errors", "/query", "E">>) = 1

\* The run() of the query of c has ended with the exception that the
\* outbound call raised.
OutboundRaised(c) == task[c] = "exception" /\ response[c].kind = "exception"

\* C16: when the outbound call raises an exception that is not a
\* cancellation, __call__ raises the same exception; pages/errors (total
\* and per output type) and total/pages/errors/rest/<exception type> grow
\* by 1, and the attempts and billable responses that the transport
\* counted before it failed are added to total/attempts/count and
\* total/attempts/billable.
C16_ExceptionPropagatedAndCounted ==
    [][\A c \in Calls : (QueryEnds(c) /\ OutboundRaised(c)) =>
          LET pt == Head(todo[c]).provided_cls
              exc == response[c].exc
          IN  /\ ppc'[c] = "raised" /\ raised'[c] = exc
              /\ Grows("total", "/pages/errors", 1)
              /\ Grows(pt, "/pages/errors", 1)
              /\ GetValue(stats', <<"total", "/pages/errors", "/rest", exc.type>>)
                   = GetValue(stats, <<"total", "/pages/errors", "/rest", exc.type>>) + 1
              /\ Grows("total", "/attempts/count", agg[c].n_attempts)
              /\ Grows("total", "/attempts/billable", agg[c].n_billable)]_vars

\* A call has raised the RequestError of the transport, which had made
\* MaxAttempts attempts before it failed.
C16_Witness ==
    /\ ppc[FirstCall] = "raised" /\ raised[FirstCall].type = "RequestError"
    /\ agg[FirstCall].n_attempts = MaxAttempts
    /\ Total("/attempts/count") = MaxAttempts
    /\ GetValue(stats, <<"total", "/pages/errors", "/rest", "RequestError">>) = 1

\* The query of c has ended with a payload without the 'error' marker,
\* from which the objects asked of this query can be built.
Succeeds(c) ==
    /\ task[c] = "result" /\ response[c].error = ""
    /\ Head(todo[c]).should_request_html => response[c].html

\* The structured objects of type T among the objects objs.
Structured(objs, T) == {i \in 1..Len(objs) : objs[i].cls = T}

\* C17: when a query of output type T succeeds, pages/count and
\* pages/success grow by exactly 1 under total and under T, no errors or
\* cancelled counter changes for this query, and one structured object of
\* type T, built from the payload, is added to what __call__ returns.
\* (When the same step starts the next query of the call after
\* cancel_all(), that query is counted as cancelled in it.)
C17_SuccessCounted ==
    [][\A c \in Calls :
          (QueryEnds(c) /\ Succeeds(c) /\ Head(todo[c]).is_extraction_required) =>
          LET T == Head(todo[c]).provided_cls
              next == IF QueryCancelled(c) THEN 1 ELSE 0
              objs == instances'[c]
          IN  /\ Grows(T, "/pages/count", 1) /\ Grows(T, "/pages/success", 1)
              /\ Grows("total", "/pages/success", 1)
              /\ Grows("total", "/pages/count", 1 + next)
              /\ Grows("total", "/pages/cancelled", next)
              /\ Grows(T, "/pages/cancelled", 0)
              /\ Grows("total", "/pages/errors", 0) /\ Grows(T, "/pages/errors", 0)
              /\ Cardinality(Structured(objs, T)) = 1
              /\ objs[Len(objs)] = [cls |-> T, url |-> response[c].url,
                                    html |-> FALSE]
              /\ next = 0 /\ Len(todo[c]) = 1 => ppc'[c] = "returned"]_vars

\* A call for one structured type has returned its one object, counted
\* as one page and one success.
C17_Witness ==
    /\ ppc[FirstCall] = "returned"
    /\ Len(instances[FirstCall]) = 1
    /\ instances[FirstCall][1].cls = "article"
    /\ Stat(stats, "article", "/pages/success") = 1
    /\ Total("/pages/success") = 1 /\ Total("/pages/count") = 1

\* The queries of specs that ask for html.
Flagged(specs) == {i \in 1..Len(specs) : specs[i].should_request_html}

\* __call__ begins in this step: todo'[c] is what list_required_requests
\* has built from requested'[c].
CallBegins(c) == ppc[c] = "idle" /\ ppc'[c] # "idle"

\* C18: for every set of classes with a structured type,
\* list_required_requests builds exactly one query for each structured
\* type and no other; it marks exactly one of them to request html when
\* html is among the classes (the query of page_type_class_for_html when
\* that type is requested) and none otherwise; for no set of classes does
\* it mark more than one.
C18_OneQueryPerTypeOneHtml ==
    [][\A c \in Calls : CallBegins(c) =>
          LET specs == todo'[c]
              tp == requested'[c]
              types == tp \ {Html}
          IN  /\ Cardinality(Flagged(specs)) <= 1
              /\ \A i \in 1..Len(specs) :
                   specs[i].query.fullHtml = specs[i].should_request_html
              /\ types # {} =>
                   /\ Len(specs) = Cardinality(types)
                   /\ \A T \in types :
                        Cardinality({i \in 1..Len(specs) :
                                        specs[i].query.pageType = T}) = 1
                   /\ Cardinality(Flagged(specs)) = IF Html \in tp THEN 1 ELSE 0
                   /\ (Html \in tp /\ PageTypeForHtml \in types) =>
                        \A i \in Flagged(specs) :
                            specs[i].query.pageType = PageTypeForHtml]_vars

\* A call for html and every structured type is at its first query: one
\* query per type, and the one of page_type_class_for_html alone asks for
\* html, although it is not the first in the iteration.
C18_Witness ==
    /\ ppc[FirstCall] = "query"
    /\ requested[FirstCall] = PageTypes \cup {Html}
    /\ Len(todo[FirstCall]) = Cardinality(PageTypes)
    /\ Cardinality(Flagged(todo[FirstCall])) = 1
    /\ todo[FirstCall][1].query.pageType # PageTypeForHtml
    /\ \A i \in Flagged(todo[FirstCall]) :
         todo[FirstCall][i].query.pageType = PageTypeForHtml

\* C19: when only AutoExtractHtml is requested, exactly one query is
\* built, for page_type_class_for_html and with fullHtml, and the call
\* that returns gives exactly one AutoExtractHtml object and no structured
\* object.
C19_HtmlOnly ==
    /\ [][\A c \in Calls : (CallBegins(c) /\ requested'[c] = {Html}) =>
             /\ Len(todo'[c]) = 1
             /\ todo'[c][1].query.pageType = PageTypeForHtml
             /\ todo'[c][1].query.fullHtml]_vars
    /\ [](\A c \in Calls : (ppc[c] = "returned" /\ requested[c] = {Html}) =>
             /\ Len(instances[c]) = 1
             /\ instances[c][1].cls = Html /\ instances[c][1].html)

\* A call for AutoExtractHtml alone has returned its object.
C19_Witness ==
    /\ requested[FirstCall] = {Html} /\ ppc[FirstCall] = "returned"
    /\ instances[FirstCall]
         = << [cls |-> Html, url |-> response[FirstCall].url, html |-> TRUE] >>
    /\ Stat(stats, PageTypeForHtml, "/pages/html") = 1

\* The calls of do_request made so far: one for every miss of the cache.
OutboundCalls == GetValue(stats, <<"cache", "miss">>)

\* C20: when one structured type and AutoExtractHtml are requested, one
\* query is built and one outbound call made, and the call that returns
\* gives exactly two objects: an AutoExtractHtml with the html of the
\* payload and the url found under the page type, and the structured
\* object, whose data has no html.
C20_TypeAndHtml ==
    /\ [][\A c \in Calls, T \in PageTypes :
             (CallBegins(c) /\ requested'[c] = {Html, T}) =>
                /\ Len(todo'[c]) = 1
                /\ todo'[c][1].query.pageType = T
                /\ todo'[c][1].query.fullHtml]_vars
    /\ [](\A T \in PageTypes :
             (ppc[FirstCall] = "returned" /\ requested[FirstCall] = {Html, T}) =>
                /\ OutboundCalls = 1
                /\ GetValue(stats, <<"cache", "hit">>) = 0
                /\ instances[FirstCall]
                     = << [cls |-> Html, url |-> response[FirstCall].url,
                           html |-> TRUE],
                          [cls |-> T, url |-> response[FirstCall].url,
                           html |-> FALSE] >>)

\* A call for articles and html has returned two objects after one
\* outbound call.
C20_Witness ==
    /\ requested[FirstCall] = {Html, "article"} /\ ppc[FirstCall] = "returned"
    /\ Len(instances[FirstCall]) = 2
    /\ OutboundCalls = 1
    /\ response[FirstCall].html

\* The lookup of the query of c finds its fingerprint in this step.
CacheHit(c) == lookup[c] # "hit" /\ lookup'[c] = "hit"

CacheStat(st, name) == GetValue(st, <<"cache", name>>)

\* C21: when the fingerprint of the query is in the cache,
\* do_request_cached returns the stored response without calling
\* do_request, counts cache/hit and no other cache counter, and leaves the
\* cache as it is.
C21_HitServedFromCache ==
    [][\A c \in Calls : CacheHit(c) =>
          LET fp == Fingerprint(cache_kind, Head(todo[c]).query)
          IN  /\ fp \in DOMAIN cache
              /\ task'[c] = "result" /\ response'[c] = cache[fp]
              /\ pc'[c] # "body"
              /\ cache' = cache
              /\ CacheStat(stats', "hit") = CacheStat(stats, "hit") + 1
              /\ \A n \in {"miss", "firsthand", "uncacheable"} :
                   CacheStat(stats', n) = CacheStat(stats, n)]_vars

\* The query of a call was served from the cache: one miss and one write
\* by the call that fetched the response, one hit since.
C21_Witness ==
    \E c \in Calls :
        /\ lookup[c] = "hit" /\ task[c] = "result"
        /\ pc[c] = "returned"
        /\ response[c] = cache[Fingerprint(cache_kind, Head(todo[c]).query)]
        /\ CacheStat(stats, "hit") = 1 /\ CacheStat(stats, "miss") = 1
        /\ CacheStat(stats, "firsthand") = 1

\* C22: with DummyCache every lookup misses and every write is dropped:
\* the cache stays empty, no query is served from it, and every query
\* that reaches the lookup calls the transport itself.
C22_DummyCacheNeverServes ==
    cache_kind = "DummyCache" =>
        /\ cache = <<>>
        /\ CacheStat(stats, "hit") = 0
        /\ \A c \in Calls : lookup[c] # "hit"
        /\ \A c \in Calls :
             (lookup[c] = "miss" /\ task[c] = "suspended") => pc[c] \in InSection

\* With DummyCache, a response without error was received and written, and
\* the identical query of another call misses and is at the transport.
C22_Witness ==
    /\ cache_kind = "DummyCache"
    /\ CacheStat(stats, "firsthand") = 1
    /\ \E c, d \in Calls :
         /\ c # d
         /\ ppc[c] = "returned" /\ lookup[c] = "miss"
         /\ ppc[d] = "query" /\ lookup[d] = "miss" /\ pc[d] = "body"
         /\ Head(todo[d]).query = Head(todo[c]).query

\* ---- AutoExtractCache used with requests of any field order ----

\* The queries looked up: html asked or not, of either url.
FpQueries == {FilledRequest(u, PageTypeForHtml, h) : u \in Urls, h \in BOOLEAN}

\* do_request_cached, lines 151-158, for the request of c whose dictionary
\* holds the fields of q in the order o.
FpLookup(c, q, o) ==
    LET fp == DictFingerprint(cache_kind, AsDict(q, o))
    IN  /\ lookup[c] # "miss"
        /\ todo' = [todo EXCEPT ![c] = <<[query |-> q, fields |-> o]>>]
        /\ IF CacheHas(cache_kind, cache, fp)
           THEN /\ lookup' = [lookup EXCEPT ![c] = "hit"]
                /\ response' = [response EXCEPT ![c] = cache[fp]]
                /\ stats' = HitCounted(stats)
           ELSE /\ lookup' = [lookup EXCEPT ![c] = "miss"]
                /\ response' = [response EXCEPT ![c] = NoResponse]
                /\ stats' = IncValue(stats, <<"cache", "miss">>, 1)
        /\ UNCHANGED <<mwVars, semVars, sigVars, tmVars, cache_kind, cache,
                       close_spider_calls, ppc, domain, instances, raised,
                       agg, requested, fp_call>>

\* do_request_cached, lines 159-165, once the transport has answered the
\* request of c without error.
FpStore(c, h) ==
    LET q == Head(todo[c]).query
        fp == DictFingerprint(cache_kind, AsDict(q, Head(todo[c]).fields))
        r == Received(Payload("", h), q)
    IN  /\ lookup[c] = "miss"
        /\ h => q.fullHtml
        /\ cache' = CacheSet(cache_kind, cache, fp, r)
        /\ stats' = IncValue(stats, <<"cache", "firsthand">>, 1)
        /\ lookup' = [lookup EXCEPT ![c] = "stored"]
        /\ response' = [response EXCEPT ![c] = r]
        /\ UNCHANGED <<mwVars, semVars, sigVars, tmVars, cache_kind,
                       close_spider_calls, ppc, todo, domain, instances,
                       raised, agg, requested, fp_call>>

\* The counters stay small: the number of lookups is bounded.
MaxLookups == 3

FpNext ==
    \/ \E c \in Calls, q \in FpQueries : \E o \in FieldOrders(q) :
          /\ CacheStat(stats, "hit") + CacheStat(stats, "miss") < MaxLookups
          /\ FpLookup(c, q, o)
    \/ \E c \in Calls, h \in BOOLEAN : FpStore(c, h)

CacheCreated == ProviderCreated /\ cache_kind = "AutoExtractCache"

SpecFp == CacheCreated /\ [][FpNext]_vars

\* C23: the fingerprint of a query does not depend on the order of its
\* fields: every stored response sits under the fingerprint that the
\* dictionary of its query has in every order of its fields, and two
\* requests of the same query have the same fingerprint.
C23_FingerprintIgnoresFieldOrder ==
    /\ \A fp \in DOMAIN cache : \A o \in FieldOrders(cache[fp].query) :
          DictFingerprint(cache_kind, AsDict(cache[fp].query, o)) = fp
    /\ \A c, d \in Calls :
          (todo[c] # <<>> /\ todo[d] # <<>>
             /\ Head(todo[c]).query = Head(todo[d]).query)
          => DictFingerprint(cache_kind,
                 AsDict(Head(todo[c]).query, Head(todo[c]).fields))
             = DictFingerprint(cache_kind,
                 AsDict(Head(todo[d]).query, Head(todo[d]).fields))

\* A response stored for a request was found for a request of the same
\* query whose dictionary holds the three fields in another order.
C23_Witness ==
    \E c, d \in Calls :
        /\ lookup[c] = "stored" /\ lookup[d] = "hit"
        /\ Head(todo[c]).query = Head(todo[d]).query
        /\ Head(todo[c]).query.fullHtml
        /\ Head(todo[c]).fields # Head(todo[d]).fields
        /\ response[d] = response[c]

\* The outbound call of the query of c has failed with the RequestError
\* whose error type is account-disabled, and __call__ handles it in this
\* step.
AccountDisabledHandled(c) ==
    /\ QueryEnds(c) /\ OutboundRaised(c)
    /\ response[c].exc = [type |-> "RequestError", message |-> "account_disabled"]

\* C24: close_spider(spider, 'account_disabled') is called in the steps
\* where __call__ handles a RequestError whose error type is
\* account-disabled, once, and in no other step: not for a query error,
\* another RequestError, another exception or a cancellation.
C24_CloseOnlyOnAccountDisabled ==
    [][IF \E c \in Calls : AccountDisabledHandled(c)
       THEN close_spider_calls' = close_spider_calls + 1
       ELSE close_spider_calls' = close_spider_calls]_vars

\* The call has failed with the account-disabled RequestError and the
\* spider was asked to close.
C24_Witness ==
    /\ ppc[FirstCall] = "raised"
    /\ raised[FirstCall] = [type |-> "RequestError", message |-> "account_disabled"]
    /\ close_spider_calls = 1

\* C25 as stated: over any sequence of calls, close_spider is called at
\* most once.  (_stop_if_account_disabled keeps no record of having called
\* it: every call that fails with the account-disabled RequestError calls
\* it again.)
C25_CloseAtMostOnce == close_spider_calls <= 1

\* What the constructor did with a limit that resolves to resolved.
ConstructedWith(resolved) ==
    IF resolved >= 1
    THEN provider = "created" /\ concurrency_per_slot = resolved
    ELSE /\ provider = "ValueError"
         /\ \A c \in Calls : ppc[c] = "idle" /\ pc[c] = "init"

\* The limit of AutoExtract is among the settings of the project.
SpecificSet == "AUTOEXTRACT_CONCURRENT_REQUESTS_PER_DOMAIN" \in DOMAIN settings
SpecificLimit == settings["AUTOEXTRACT_CONCURRENT_REQUESTS_PER_DOMAIN"]
GeneralLimitSet == settings["CONCURRENT_REQUESTS_PER_DOMAIN"]

\* C26 as stated: the limit of AutoExtract is taken whenever it is set,
\* the general limit otherwise, and the construction of the provider
\* raises ValueError when the limit taken is below 1.
C26_SpecificWhenSet ==
    provider # "none" =>
        ConstructedWith(IF SpecificSet THEN SpecificLimit ELSE GeneralLimitSet)

\* C26, amended: the limit of AutoExtract is taken when it is set to a
\* value other than -1, the general limit otherwise (also when the limit
\* of AutoExtract is set to -1); the provider is constructed with the
\* limit taken when it is at least 1, and its construction raises
\* ValueError, before any request is served, when it is below 1.  No call
\* of the provider raises that ValueError.
C26_LimitResolved ==
    /\ provider # "none" =>
          ConstructedWith(IF SpecificSet /\ SpecificLimit # -1
                          THEN SpecificLimit ELSE GeneralLimitSet)
    /\ provider = "created" => concurrency_per_slot >= 1
    /\ \A c \in Calls : raised[c].type # "ValueError"

\* The limit of AutoExtract is set and differs from the general one: the
\* provider has it, and has served a call.
C26_Witness ==
    /\ SpecificSet /\ SpecificLimit = 2 /\ GeneralLimitSet = 1
    /\ provider = "created" /\ concurrency_per_slot = 2
    /\ ppc[FirstCall] = "returned"

\* C27 as stated: a SlotsSemaphore with a capacity of 0 or less is never
\* used by a task, its constructor having raised.  (The constructor checks
\* nothing: with capacity 0 every task waits at the gate for ever, with a
\* negative capacity every run() raises the ValueError of
\* asyncio.BoundedSemaphore.)
C27_NoUseBelowOne ==
    (\E t \in Tasks : pc[t] # "init") => concurrency_per_slot >= 1

\* ------------------------------------------------- AutoExtractMiddleware
\* AutoExtractMiddleware.DEFAULT_TIMEOUT and the default of DOWNLOAD_TIMEOUT
\* that __init__ passes to getint.
DEFAULT_TIMEOUT == 660
DefaultDownloadTimeout == 180

Max(a, b) == IF a >= b THEN a ELSE b

\* The timeout would be AUTOEXTRACT_TIMEOUT alone.
MwTimeoutOwn(st) == GetInt(st, "AUTOEXTRACT_TIMEOUT", DEFAULT_TIMEOUT)

\* __init__, lines 55-58.
MwTimeout(st) ==
    Max(GetInt(st, "AUTOEXTRACT_TIMEOUT", DEFAULT_TIMEOUT),
        GetInt(st, "DOWNLOAD_TIMEOUT", DefaultDownloadTimeout))

\* Settings.get(name, default).
GetSetting(st, name, default) == IF name \in DOMAIN st THEN st[name] ELSE default

\* __init__, lines 47-61: page_type is "" when neither the settings nor
\* the spider give one.
NewMiddleware(st) ==
    [timeout |-> MwTimeout(st),
     page_type |-> GetSetting(st, "AUTOEXTRACT_PAGE_TYPE", ""),
     slot_policy |-> GetSetting(st, "AUTOEXTRACT_SLOT_POLICY", "per_domain")]

\* A setting that the project may leave out.
Optional(name, values) == {<<>>} \cup {name :> v : v \in values}

MwSettings ==
    {a @@ d @@ p @@ sp :
        a \in Optional("AUTOEXTRACT_TIMEOUT", {1, 10000}),
        d \in Optional("DOWNLOAD_TIMEOUT", {100, 1000}),
        p \in Optional("AUTOEXTRACT_PAGE_TYPE", {"product"}),
        sp \in Optional("AUTOEXTRACT_SLOT_POLICY",
                        {"single_slot", "scrapy_default"})}

\* request.meta: 'autoextract' (present or not, with its 'enabled',
\* 'pageType' -- "" when the key is missing --, 'extra' and 'headers': none,
\* a dict, or something else), the marker AUTOEXTRACT_META_KEY,
\* 'download_timeout' (0: missing) and 'download_slot' ("": missing).
Metas ==
    [autoextract : [present : {TRUE}, enabled : BOOLEAN,
                    pageType : {"", "article"},
                    extra : {"none", "dict", "other"},
                    headers : {"none", "other"}]
                   \cup {[present |-> FALSE, enabled |-> FALSE,
                          pageType |-> "", extra |-> "none",
                          headers |-> "none"]},
     marker : BOOLEAN,
     download_timeout : {0, 5},
     download_slot : {""}]

\* The requests that reach the middleware.
Requests ==
    [url : {"a.example/1"}, method : {"GET", "POST"}, body : {<<>>},
     meta : Metas]

\* _is_enabled_for_request, lines 247-252.
IsEnabledForRequest(req) ==
    req.meta.autoextract.present /\ req.meta.autoextract.enabled

\* _check_page_type, lines 254-260: "" stands for a value that raises
\* AutoExtractConfigError.
CheckPageType(m, req) ==
    IF req.meta.autoextract.present /\ req.meta.autoextract.pageType # ""
    THEN req.meta.autoextract.pageType ELSE m.page_type

\* _set_download_slot, lines 262-271.
SetDownloadSlot(m, req, meta) ==
    IF m.slot_policy = "per_domain"
    THEN [meta EXCEPT !.download_slot = "domain"]
    ELSE IF m.slot_policy = "single_slot"
         THEN [meta EXCEPT !.download_slot = "__AutoExtract__"]
         ELSE meta

\* process_request(request, spider), lines 88-150: the request as the call
\* leaves it (the new request when one is returned), what the call returns
\* or raises, and whether autoextract/request_count is counted.
ProcessRequest(m, req) ==
    LET marked == [req.meta EXCEPT !.marker = TRUE]
        timed == [marked EXCEPT !.download_timeout = m.timeout]
        slotted == SetDownloadSlot(m, req, timed)
        page_type == CheckPageType(m, req)
    IN  IF ~IsEnabledForRequest(req) \/ req.meta.marker
        THEN [request |-> req, result |-> "None", counted |-> 0]
        ELSE IF req.method # "GET"
        THEN [request |-> req, result |-> "AutoExtractError", counted |-> 0]
        ELSE IF page_type = ""
        THEN [request |-> [req EXCEPT !.meta = marked],
              result |-> "AutoExtractConfigError", counted |-> 0]
        ELSE IF req.meta.autoextract.extra = "other"
                  \/ req.meta.autoextract.headers = "other"
        THEN [request |-> [req EXCEPT !.meta = slotted],
              result |-> "AutoExtractError", counted |-> 0]
        ELSE [request |-> [url |-> "AUTOEXTRACT_URL", method |-> "POST",
                           body |-> <<req.url, page_type,
                                      req.meta.autoextract.extra>>,
                           meta |-> slotted],
              result |-> "Request", counted |-> 1]

\* The downloader calls process_request with a request.
MwProcessRequest(req) ==
    /\ mw_result = "none"
    /\ LET r == ProcessRequest(mw, req)
       IN  /\ request' = r.request
           /\ mw_result' = r.result
           /\ stats' = IncValue(stats, <<"request_count">>, r.counted)
           /\ mw_log' = Append(mw_log, "process_request")
    /\ UNCHANGED <<semVars, sigVars, tmVars, cache_kind, cache,
                   close_spider_calls, ppc, todo, domain, instances, raised,
                   response, agg, lookup, requested, fp_call, mw>>

\* The responses of the downloader: the status and what the body is (not
\* JSON, a JSON object, a list whose first result has 'error', a list
\* with a result).
Responses ==
    [status : {200, 500}, body : {"not_json", "dict", "list_error", "list"}]

\* The exceptions process_exception is called with.
Exceptions == {"IgnoreRequest", "AutoExtractError", "TimeoutError"}

\* What request.meta['autoextract'] is once lines 214 or 242 have put the
\* dict of the marker there: original_url, timing and the result, no
\* 'enabled', no 'pageType'.
MarkerDict ==
    [present |-> TRUE, enabled |-> FALSE, pageType |-> "", extra |-> "none",
     headers |-> "none"]

\* inc_metric for every key of the sequence, lines 281-282.
RECURSIVE IncMetrics(_, _)
IncMetrics(st, keys) ==
    IF keys = <<>> THEN st
    ELSE IncMetrics(IncValue(st, Head(keys), 1), Tail(keys))

\* process_response(request, response, spider), lines 152-222: the
\* request as the call leaves it, what the call returns or raises, and
\* the keys it counts.
ProcessResponse(m, req, resp) ==
    LET popped == [req.meta EXCEPT !.marker = FALSE]
        failed(key) == [request |-> req, result |-> "AutoExtractError",
                        counted |-> <<key>>]
    IN  IF ~IsEnabledForRequest(req) \/ ~req.meta.marker
        THEN [request |-> req, result |-> "response", counted |-> <<>>]
        ELSE IF resp.body = "not_json"
        THEN failed(<<"errors", "json_decode">>)
        ELSE IF resp.status # 200
        THEN failed(<<"errors", "response_error">>)
        ELSE IF resp.body = "dict"
        THEN failed(<<"errors", "type_error">>)
        ELSE IF resp.body = "list_error"
        THEN failed(<<"errors", "result_error">>)
        ELSE IF CheckPageType(m, req) = ""
        THEN [request |-> [req EXCEPT !.meta = popped],
              result |-> "AutoExtractConfigError", counted |-> <<>>]
        ELSE [request |->
                [req EXCEPT !.meta = [popped EXCEPT !.autoextract = MarkerDict]],
              result |-> "HtmlResponse", counted |-> <<>>]

\* "request.meta.pop(AUTOEXTRACT_META_KEY)", line 230: KeyError when the
\* key is missing.
MarkerPopped(req) == req.meta.marker

\* process_exception(request, exception, spider), lines 224-245.
ProcessException(m, req, exc) ==
    IF exc = "IgnoreRequest" \/ ~IsEnabledForRequest(req)
    THEN [request |-> req, result |-> "None", counted |-> <<>>]
    ELSE IF ~MarkerPopped(req)
    THEN [request |-> req, result |-> "KeyError", counted |-> <<>>]
    ELSE [request |->
            [req EXCEPT !.meta = [req.meta EXCEPT !.marker = FALSE,
                                                  !.autoextract = MarkerDict]],
          result |-> "None",
          counted |-> << <<"errors", "total_count">>,
                         <<"errors", "type_count", exc>> >>]

\* The downloader calls process_response with the request and a response.
MwProcessResponse(resp) ==
    /\ mw_log # <<>> /\ Len(mw_log) < MaxMwCalls
    /\ LET r == ProcessResponse(mw, request, resp)
       IN  /\ request' = r.request
           /\ mw_result' = r.result
           /\ stats' = IncMetrics(stats, r.counted)
           /\ mw_log' = Append(mw_log, "process_response")
    /\ UNCHANGED <<semVars, sigVars, tmVars, cache_kind, cache,
                   close_spider_calls, ppc, todo, domain, instances, raised,
                   response, agg, lookup, requested, fp_call, mw>>

\* The downloader calls process_exception with the request and the
\* exception that a download or a process_request ended with.
MwProcessException(exc) ==
    /\ mw_log # <<>> /\ Len(mw_log) < MaxMwCalls
    /\ LET r == ProcessException(mw, request, exc)
       IN  /\ request' = r.request
           /\ mw_result' = r.result
           /\ stats' = IncMetrics(stats, r.counted)
           /\ mw_log' = Append(mw_log, "process_exception")
    /\ UNCHANGED <<semVars, sigVars, tmVars, cache_kind, cache,
                   close_spider_calls, ppc, todo, domain, instances, raised,
                   response, agg, lookup, requested, fp_call, mw>>

\* AutoExtractMiddleware.from_crawler(crawler), lines 69-75.
MiddlewareCreated ==
    /\ SemInit /\ SigInit /\ TMInit /\ ProvInit
    /\ concurrency_per_slot = 1
    /\ first_handler = "SIG_DFL"
    /\ cache_kind = "DummyCache"
    /\ provider = "none"
    /\ settings \in MwSettings
    /\ mw = NewMiddleware(settings)
    /\ request = NoRequest
    /\ mw_result = "none"
    /\ mw_log = <<>>

MwNext ==
    \/ \E req \in Requests : MwProcessRequest(req)
    \/ \E resp \in Responses : MwProcessResponse(resp)
    \/ \E exc \in Exceptions : MwProcessException(exc)

SpecMw == MiddlewareCreated /\ [][MwNext]_vars

\* The request was enabled and process_request has returned the request
\* to AutoExtract in its place.
Transformed == mw_result = "Request"

\* C28: the download_timeout of every request that process_request has
\* transformed is the larger of AUTOEXTRACT_TIMEOUT (660 when not set) and
\* DOWNLOAD_TIMEOUT (180 when not set): it is never below the download
\* timeout, whatever AUTOEXTRACT_TIMEOUT and the request said.
C28_TimeoutIsMax ==
    Transformed =>
        LET own == IF "AUTOEXTRACT_TIMEOUT" \in DOMAIN settings
                   THEN settings["AUTOEXTRACT_TIMEOUT"] ELSE 660
            download == IF "DOWNLOAD_TIMEOUT" \in DOMAIN settings
                        THEN settings["DOWNLOAD_TIMEOUT"] ELSE 180
        IN  /\ request.meta.download_timeout \in {own, download}
            /\ request.meta.download_timeout >= own
            /\ request.meta.download_timeout >= download

\* AUTOEXTRACT_TIMEOUT is 1 and DOWNLOAD_TIMEOUT is not set: the request
\* transformed has the timeout 180.
C28_Witness ==
    /\ Transformed
    /\ "AUTOEXTRACT_TIMEOUT" \in DOMAIN settings
    /\ settings["AUTOEXTRACT_TIMEOUT"] = 1
    /\ "DOWNLOAD_TIMEOUT" \notin DOMAIN settings
    /\ request.meta.download_timeout = 180

\* C29 as stated: the counter of a key is the number of the tasks that
\* wait for its gate or hold it, and a key none of whose tasks is left is
\* absent.  (A task cancelled while it waits in acquire() leaves
\* __aenter__ with CancelledError: __aexit__ is not run, the counter keeps
\* its registration, and the key is never deleted.)
C29_CounterIsUsers ==
    /\ \A k \in DOMAIN slots :
          slots[k].registered_tasks
            = Cardinality(AtGateOf(k) \cup InSectionOf(k))
    /\ \A k \in Keys :
          AtGateOf(k) \cup InSectionOf(k) = {} => k \notin DOMAIN slots

\* The free permits of the key k: those of a semaphore not created yet are
\* its capacity.
Permits(s, k) == IF k \in DOMAIN s THEN s[k].value ELSE concurrency_per_slot

\* The awaitable of t starts in this step / ends in this step.
EntersBody(t) == pc[t] \notin InSection /\ pc'[t] \in InSection
LeavesBody(t) == pc[t] \in InSection /\ pc'[t] \notin InSection

\* C30: the awaitable of run() starts only in a step that takes a free
\* permit of its key; when it ends, by returning, raising or being
\* cancelled, the permit is given back, the registration is removed (the
\* key deleted with the last one) and the first waiter of the key is
\* woken, in the same way for the three outcomes; run() ends as the
\* awaitable did, a cancellation as a cancellation.
C30_ReleasedHoweverBodyEnds ==
    [][\A t \in Tasks :
        /\ EntersBody(t) =>
              /\ Permits(slots, slot'[t]) > 0
              /\ Permits(slots', slot'[t]) = Permits(slots, slot'[t]) - 1
        /\ LeavesBody(t) =>
              LET k == slot[t]
              IN  /\ pc'[t] \in BodyEnded
                  /\ pc[t] = "body_cancelled" <=> pc'[t] = "cancelled_in_body"
                  /\ IF slots[k].registered_tasks = 1
                     THEN k \notin DOMAIN slots'
                     ELSE /\ slots'[k].registered_tasks
                               = slots[k].registered_tasks - 1
                          /\ slots'[k].value = slots[k].value + 1
                  /\ HasWaiter(slots, k) =>
                        /\ pc'[NextWaiter(slots, k)] = "woken"
                        /\ slots'[k].waiters = Tail(slots[k].waiters)]_vars

\* With capacity 1, a task was cancelled while its awaitable ran, and the
\* task that waited for the same key has been woken by its release; no
\* other task has run.
C30_Witness ==
    /\ concurrency_per_slot = 1
    /\ \E t, w \in Tasks :
         /\ t # w /\ slot[t] = slot[w]
         /\ pc[t] = "cancelled_in_body" /\ pc[w] = "woken"
         /\ slots[slot[t]].value = 1
         /\ slots[slot[t]].registered_tasks = 1
         /\ \A u \in Tasks \ {t, w} : pc[u] = "init"

\* The task of the query of c looks its fingerprint up in this step.
LooksUp(c) == lookup[c] = "none" /\ lookup'[c] # "none"

\* The first step of the task of the query of c.
TaskStarts(c) == ~started[c] /\ started'[c]

\* C31: the cache is looked up only by a task that run() of the
\* TaskManager has created and registered and that takes a free permit of
\* its domain in the same step; a task that starts while the slots of its
\* domain are all held waits, without a lookup, also when its response is
\* cached; no task looks up while it waits; a task that cancel_all() has
\* cancelled never looks up, and a lookup made once cancel_all() has run
\* belongs to a call that has already raised CancelledError.
C31_LookupAfterGate ==
    /\ [](\A c \in Calls : pc[c] \in AtGate => lookup[c] = "none")
    /\ [][\A c \in Calls :
          /\ LooksUp(c) =>
                /\ mgr[c] = ProviderManager /\ started'[c]
                /\ Permits(slots, domain[c]) > 0
                /\ ~must_cancel[c]
                /\ cancel_all_called[ProviderManager]
                      => call[c] = "raised_cancelled"
          /\ (TaskStarts(c)
                /\ Cardinality(InSectionOf(domain[c])) = concurrency_per_slot)
             => lookup'[c] = "none" /\ pc'[c] = "waiting"]_vars

\* The response of the query of a call was in the cache while the call
\* waited for the slot of its domain, held by another call; cancel_all()
\* ran and the call has raised CancelledError without a lookup.
C31_Witness ==
    \E c, d \in Calls :
        /\ c # d /\ domain[c] = domain[d]
        /\ pc[c] \in BodyEnded \cup InSection
        /\ pc[d] = "cancelled_at_gate" /\ lookup[d] = "none"
        /\ ppc[d] = "raised" /\ raised[d] = CancelledError
        /\ CacheHas(cache_kind, cache,
                    Fingerprint(cache_kind, Head(todo[d]).query))

\* The fingerprint of the query in progress of the call c.
FingerprintOf(c) == Fingerprint(cache_kind, Head(todo[c]).query)

\* The calls whose outbound request for the fingerprint fp is in flight.
InFlight(fp) ==
    {c \in Calls : ppc[c] = "query" /\ pc[c] \in InSection
                   /\ lookup[c] = "miss" /\ FingerprintOf(c) = fp}

\* C32: nothing holds a query back because an identical one is in flight:
\* a task that starts while a permit of its domain is free and its
\* fingerprint is not in the cache misses and calls the transport in that
\* step, whatever the other calls are doing.
C32_NoSingleFlight ==
    [][\A c \in Calls :
          (TaskStarts(c) /\ Permits(slots, domain[c]) > 0
             /\ ~CacheHas(cache_kind, cache, FingerprintOf(c)))
          => lookup'[c] = "miss" /\ pc'[c] = "body"]_vars

\* With capacity 2 and an empty cache, two identical queries have both
\* missed and both outbound requests are in flight.
C32_Witness ==
    /\ concurrency_per_slot = 2 /\ cache = <<>>
    /\ \E c \in Calls :
         ppc[c] = "query" /\ Cardinality(InFlight(FingerprintOf(c))) = 2
    /\ CacheStat(stats, "miss") = 2

\* The outbound request of the query of c is answered in this step by a
\* payload without error.
AnsweredWell(c) ==
    /\ pc[c] = "body" /\ pc'[c] = "returned" /\ lookup[c] = "miss"
    /\ response'[c].kind = "payload" /\ response'[c].error = ""

OneSlotRealCache ==
    concurrency_per_slot = 1 /\ cache_kind = "AutoExtractCache"

\* C33: with capacity 1 and AutoExtractCache, at most one outbound request
\* per fingerprint is in flight; the response of one answered without
\* error is in the cache when its slot is released, and stays there; a
\* query misses only when its fingerprint is not in the cache and no
\* request for it is in flight, and hits otherwise: the identical query
\* that waited is served from the cache.
C33_OneOutboundPerFingerprint ==
    /\ [](\A c \in Calls :
            (OneSlotRealCache /\ ppc[c] = "query")
            => Cardinality(InFlight(FingerprintOf(c))) <= 1)
    /\ [][OneSlotRealCache =>
          /\ DOMAIN cache \subseteq DOMAIN cache'
          /\ \A c \in Calls :
               /\ AnsweredWell(c) => FingerprintOf(c) \in DOMAIN cache'
               /\ LooksUp(c) =>
                    IF FingerprintOf(c) \in DOMAIN cache
                    THEN /\ lookup'[c] = "hit"
                         /\ response'[c] = cache[FingerprintOf(c)]
                    ELSE /\ lookup'[c] = "miss"
                         /\ InFlight(FingerprintOf(c)) = {}]_vars

\* The outbound request of a call was answered without error while the
\* identical query of another call waited for the slot: it has been woken
\* and will find the response in the cache.
C33_Witness ==
    /\ cache_kind = "AutoExtractCache"
    /\ \E c, d \in Calls :
         /\ c # d /\ ppc[c] = "query" /\ ppc[d] = "query"
         /\ pc[c] = "returned" /\ lookup[c] = "miss"
         /\ pc[d] = "woken" /\ lookup[d] = "none"
         /\ FingerprintOf(c) = FingerprintOf(d)
         /\ FingerprintOf(d) \in DOMAIN cache
         /\ CacheStat(stats, "miss") = 1

\* The counters of the provider under the total prefix.
TotalKeys == {key \in DOMAIN stats : key[1] = "total"}

\* What the per-type prefixes hold together for the suffix of key.
PerType(key) ==
    GetValue(stats, <<"product">> \o Tail(key))
    + GetValue(stats, <<"article">> \o Tail(key))
    + GetValue(stats, <<"jobPosting">> \o Tail(key))

\* The counters that inc_stats is called for with both=True.
PageCounters ==
    {<<"total", n>> : n \in {"/pages/count", "/pages/success", "/pages/errors",
                             "/pages/cancelled", "/pages/html"}}

\* C34 as stated: every counter under the total prefix is matched by the
\* counters of the same name under the per-type prefixes.
C34_EveryCounterUnderBoth ==
    \A key \in TotalKeys : stats[key] = PerType(key)

\* C34, amended: pages/count, pages/success, pages/errors, pages/cancelled
\* and pages/html are counted under the total prefix and under the prefix
\* of the output type of the query, by the same amount; the error
\* classification (pages/errors/query/..., pages/errors/rest/...) and
\* attempts/count and attempts/billable are counted under the total
\* prefix only.
C34_PageCountersUnderBoth ==
    /\ \A key \in TotalKeys :
          IF key \in PageCounters THEN stats[key] = PerType(key)
          ELSE PerType(key) = 0
    /\ \A key \in DOMAIN stats :
          key[1] \in PageTypes => <<"total">> \o Tail(key) \in PageCounters

\* A query for articles failed after MaxAttempts attempts: the error is
\* counted under total and article, its class and the attempts under
\* total only.
C34_Witness ==
    /\ Total("/pages/errors") = 1
    /\ Stat(stats, "article", "/pages/errors") = 1
    /\ Total("/attempts/count") = MaxAttempts
    /\ Stat(stats, "article", "/attempts/count") = 0
    /\ GetValue(stats, <<"total", "/pages/errors", "/rest", "RequestError">>) = 1

\* The number of queries that list_required_requests has built for c.
Required(c) == Cardinality(RequiredTypes(requested[c]))

\* C35: the call takes its queries one at a time: the next one starts only
\* in the step in which the task of the previous one is found ended with a
\* result, and no task exists for the ones behind it; once a query has
\* failed or was cancelled the call has raised for good: the queries left
\* are never started, the call never returns the objects built so far (it
\* returns only when every query has succeeded),
\* and pages/count and pages/success keep what the queries before it have
\* counted.
C35_QueriesOneAtATime ==
    /\ [](\A c \in Calls :
            ppc[c] = "raised" =>
               /\ Len(todo[c]) >= 1
               /\ Total("/pages/count") = Required(c) - Len(todo[c]) + 1
               /\ Total("/pages/success") = Required(c) - Len(todo[c])
               /\ CacheStat(stats, "hit") + CacheStat(stats, "miss")
                    <= Required(c) - Len(todo[c]) + 1)
    /\ [](\A c \in Calls :
            (ppc[c] = "returned" /\ todo[c] # <<>>) =>
               /\ Len(todo[c]) = 1
               /\ Total("/pages/success") = Required(c))
    /\ [][\A c \in Calls :
            /\ (todo[c] # <<>> /\ todo'[c] # todo[c]) =>
                  /\ task[c] = "result" /\ pc[c] = "returned"
                  /\ todo'[c] = Tail(todo[c])
                  /\ task'[c] = "scheduled" /\ lookup'[c] = "none"
            /\ ppc[c] = "raised" =>
                  /\ ppc'[c] = "raised" /\ todo'[c] = todo[c]
                  /\ raised'[c] = raised[c]]_vars

\* Three types were asked for; the first query succeeded, the second
\* failed: the call has raised, the third query was not started.
C35_Witness ==
    /\ ppc[FirstCall] = "raised" /\ Required(FirstCall) = 3
    /\ Len(todo[FirstCall]) = 2
    /\ raised[FirstCall].type \in {"QueryError", "RequestError", "TimeoutError"}
    /\ instances[FirstCall] = <<>>
    /\ Total("/pages/count") = 2 /\ Total("/pages/success") = 1
    /\ Total("/pages/errors") = 1

\* The number of entries e of the log.
Times(log, e) == Cardinality({i \in 1..Len(log) : log[i] = e})

\* The managers that existed when the signal was delivered.
ManagersAtSignal == 1..sig_log[1][2]

\* C36: the handlers of the managers created for the signal chain: one
\* delivery of the signal runs cancel_all() of every manager created so
\* far exactly once, the older manager's before the newer one's, and every
\* one of these managers is cancelling afterwards.
C36_ChainOldestFirst ==
    sig_log # <<>> =>
        /\ \A m \in ManagersAtSignal :
              /\ Times(sig_log, <<"cancel_all", m>>) = 1
              /\ cancelled[m]
              /\ cancel_all_called[m]
        /\ \A m1, m2 \in ManagersAtSignal :
              m1 < m2 =>
                 Position(sig_log, <<"cancel_all", m1>>)
                     < Position(sig_log, <<"cancel_all", m2>>)

\* The signal was delivered when two managers had been created, neither
\* of them cancelling before the delivery.
C36_Witness ==
    /\ sig_log # <<>>
    /\ sig_log[1][2] = 2
    /\ \A m \in 1..2 : cancelled[m]
    /\ \E t \in Tasks : mgr[t] = 1 /\ at_cancel[t] # "no"
    /\ \E t \in Tasks : mgr[t] = 2 /\ at_cancel[t] # "no"


\* The queries of a list of specs.
QueriesOf(specs) == {specs[i].query : i \in 1..Len(specs)}

\* __call__ has just been called with the set that fingerprint() was
\* called with: it has returned at once with nothing to do, or it has
\* started its first query and holds the whole list.
CalledWithSameSet(c) ==
    /\ fp_call[c].called
    /\ \/ ppc[c] = "returned" /\ todo[c] = <<>>
       \/ ppc[c] = "query" /\ Len(todo[c]) = Required(c)

\* C37: list_required_requests leaves the set of its caller as it was, and
\* __call__ called with the set that fingerprint() was called with builds
\* the queries that fingerprint() built, full-content flag included.
C37_CallerSetUntouched ==
    \A c \in Calls :
        /\ fp_call[c].called => fp_call[c].to_provide = fp_call[c].given
        /\ CalledWithSameSet(c) =>
               QueriesOf(todo[c]) = QueriesOf(fp_call[c].specs)


\* process_exception is called in this step with a request that is enabled.
ProcessExceptionCalled ==
    /\ mw_log' # mw_log
    /\ mw_log'[Len(mw_log')] = "process_exception"
    /\ IsEnabledForRequest(request)

\* C38: process_exception called with an enabled request never raises,
\* whatever calls of the middleware came before (process_request that
\* raised before it set the marker, process_response that removed it):
\* it returns None, and unless the exception is IgnoreRequest it counts
\* the error.
C38_ProcessExceptionNeverRaises ==
    [][ProcessExceptionCalled =>
          /\ mw_result' = "None"
          /\ \/ stats' = stats
             \/ GetValue(stats', <<"errors", "total_count">>)
                  = GetValue(stats, <<"errors", "total_count">>) + 1]_vars


====
